---- MODULE Spec2Model ----
(***************************************************************************)
(* Verification model of the PII anonymization pipeline                    *)
(* (elanlanguages/bridge-anonymization): span overlap resolution           *)
(* (utils/offsets.ts), the replacement tagger and the rehydrator           *)
(* (pipeline/tagger.ts).                                                   *)
(*                                                                         *)
(* Strings are sequences of characters; a character is a one-element       *)
(* TLA+ string, or a short name for a character outside ASCII or for the   *)
(* backtick ("nbsp", "ldquo", "backtick", ...).  Offsets are 0-based as in *)
(* the source, sequences are 1-based, so text.slice(a, b) is               *)
(* SubSeq(text, a + 1, b).                                                 *)
(***************************************************************************)
EXTENDS Integers, Sequences, FiniteSets, TLC

VARIABLES
    pc,              \* position of the running operation
    spans,           \* removeOverlappingSpans: parameter `spans`
    sorted,          \* removeOverlappingSpans: local `sorted`
    result,          \* removeOverlappingSpans: local `result`
    idx,             \* removeOverlappingSpans: position of the for-of loop in `sorted`
    prefer,          \* removeOverlappingSpans: parameter `prefer`
    output,          \* removeOverlappingSpans: returned list
    inText,          \* tagEntities: argument `text`
    inMatches,       \* tagEntities: argument `matches`
    inPolicy,        \* tagEntities: argument `policy`
    tagged,          \* tagEntities: returned TaggingResult
    restored,        \* rehydrate(tagged.anonymizedText, tagged.piiMap)
    doc,             \* how the text given to rehydrate was written: its tags
    rhText,          \* rehydrate: argument `anonymizedText`
    rhMap,           \* rehydrate: argument `piiMap`
    rhStrict,        \* rehydrate: argument `strict`
    rhTags,          \* rehydrate: local `tags` after the descending sort
    rehydrated,      \* rehydrate: returned text
    vaultMap,        \* encryptPIIMap: argument `piiMap`, serialized
    vaultKey,        \* encryptPIIMap: argument `key`
    encrypted,       \* encryptPIIMap: returned EncryptedPIIMap
    received,        \* decryptPIIMap: argument `encrypted`
    decryptKey,      \* decryptPIIMap: argument `key`
    decrypted,       \* decryptPIIMap: returned map, serialized
    vaultError,      \* the error thrown by the vault, "none" without one
    valDoc,          \* how the text given to validateOutput was written: its pieces
    valText,         \* validateOutput: argument `anonymizedText`
    valEntities,     \* validateOutput: argument `entities`
    valKeys,         \* validateOutput: argument `piiMapKeys`
    valPolicy,       \* validateOutput: argument `policy`
    validation,      \* validateOutput: returned ValidationResult
    recognizers,     \* RecognizerRegistry: field `recognizers`, in insertion order
    regDoc,          \* how the text given to findAll was written: its words
    regText,         \* findAll: argument `text`
    regPolicy,       \* findAll: argument `policy`
    regRan,          \* findAll: the recognizers whose find was called, in order
    regMatches,      \* findAll: returned list
    ibanInput,       \* validateIBAN: argument `iban`
    ibanResult,      \* validateIBAN: returned value
    luhnInput,       \* validateLuhn: argument `input`
    luhnResult,      \* validateLuhn: returned value
    ipParts,         \* how the text given to find was written: its dotted parts
    ipText,          \* ipAddressRecognizer.find: argument `text`
    ipMatches,       \* ipAddressRecognizer.find: returned list
    ipValid,         \* ipAddressRecognizer.validate of the dotted parts alone
    mergeSpans,      \* mergeAdjacentSpans: argument `spans`
    mergeText,       \* mergeAdjacentSpans: argument `originalText`
    mergeResult,     \* mergeAdjacentSpans: returned list
    bioTokens,       \* decodeBIOTags: argument `tokens`
    bioLabels,       \* decodeBIOTags: argument `labels`
    bioConfidences,  \* decodeBIOTags: argument `confidences`
    bioText,         \* decodeBIOTags: argument `originalText`
    bioIndex,        \* decodeBIOTags: loop variable `i`
    currentEntity,   \* decodeBIOTags: local `currentEntity`
    bioEntities,     \* decodeBIOTags: local `entities`, returned at the end
    ovSpans,         \* hasNoOverlaps and validateNoOverlaps: the list given
    ovHas,           \* hasNoOverlaps: returned value
    ovValidate,      \* validateNoOverlaps: returned value
    leText,          \* createLineEndingMapping: originalText
    crlfPositions,   \* createLineEndingMapping: the positions found (Nothing: identity mapping)
    leOffset,        \* the normalized offset given to toOriginal
    leOriginal,      \* toOriginal: returned value
    leBack,          \* toNormalized(toOriginal(n)): returned value
    tcClient,        \* TritonClient.client: 0 is null, else the number of the client object
    tcConnected,     \* TritonClient.connected
    tcCalls,         \* where each call of connect() or ensureConnected() stands
    tcOpen,          \* the client objects created and not closed
    tcCreated,       \* number of client objects created
    tcCloses,        \* number of calls of close()
    nmClient,        \* TritonNERModel.client: 0 is null, else the number of the TritonClient
    nmTokenizer,     \* TritonNERModel.tokenizer is set
    nmIsLoaded,      \* TritonNERModel.isLoaded
    nmLoads,         \* where each call of load() stands
    nmCreated,       \* number of TritonClient objects created
    nmClosed,        \* the TritonClient objects that dispose() closed
    nmPredict,       \* what the last predict() did
    nmPredictAt      \* the fields as the last predict() found them

resolverVars == <<spans, prefer, sorted, result, idx, output>>

taggerVars == <<inText, inMatches, inPolicy, tagged, restored>>

rehydratorVars == <<doc, rhText, rhMap, rhStrict, rhTags, rehydrated>>

vaultVars ==
    <<vaultMap, vaultKey, encrypted, received, decryptKey, decrypted, vaultError>>

validatorVars == <<valDoc, valText, valEntities, valKeys, valPolicy, validation>>

registryVars == <<recognizers, regDoc, regText, regPolicy, regRan, regMatches>>

checksumVars == <<ibanInput, ibanResult, luhnInput, luhnResult>>

ipv4Vars ==
    <<ipParts, ipText, ipMatches, ipValid>>

mergerVars ==
    <<mergeSpans, mergeText, mergeResult>>

decoderVars ==
    <<bioTokens, bioLabels, bioConfidences, bioText, bioIndex, currentEntity,
      bioEntities>>

overlapsVars ==
    <<ovSpans, ovHas, ovValidate>>

lineEndingVars ==
    <<leText, crlfPositions, leOffset, leOriginal, leBack>>

tritonClientVars ==
    <<tcClient, tcConnected, tcCalls, tcOpen, tcCreated, tcCloses>>

tritonModelVars ==
    <<nmClient, nmTokenizer, nmIsLoaded, nmLoads, nmCreated, nmClosed,
      nmPredict, nmPredictAt>>

vars ==
    <<pc, resolverVars, taggerVars, rehydratorVars, vaultVars, validatorVars,
      registryVars, checksumVars, ipv4Vars, mergerVars, decoderVars,
      overlapsVars, lineEndingVars, tritonClientVars, tritonModelVars>>

\* the variables a component leaves alone
outsideResolver ==
    <<taggerVars, rehydratorVars, vaultVars, validatorVars, registryVars,
      checksumVars, ipv4Vars, mergerVars, decoderVars, overlapsVars,
      lineEndingVars, tritonClientVars, tritonModelVars>>

outsideTagger ==
    <<resolverVars, rehydratorVars, vaultVars, validatorVars, registryVars,
      checksumVars, ipv4Vars, mergerVars, decoderVars, overlapsVars,
      lineEndingVars, tritonClientVars, tritonModelVars>>

outsideRehydrator ==
    <<resolverVars, taggerVars, vaultVars, validatorVars, registryVars,
      checksumVars, ipv4Vars, mergerVars, decoderVars, overlapsVars,
      lineEndingVars, tritonClientVars, tritonModelVars>>

outsideVault ==
    <<resolverVars, taggerVars, rehydratorVars, validatorVars, registryVars,
      checksumVars, ipv4Vars, mergerVars, decoderVars, overlapsVars,
      lineEndingVars, tritonClientVars, tritonModelVars>>

outsideValidator ==
    <<resolverVars, taggerVars, rehydratorVars, vaultVars, registryVars,
      checksumVars, ipv4Vars, mergerVars, decoderVars, overlapsVars,
      lineEndingVars, tritonClientVars, tritonModelVars>>

outsideRegistry ==
    <<resolverVars, taggerVars, rehydratorVars, vaultVars, validatorVars,
      checksumVars, ipv4Vars, mergerVars, decoderVars, overlapsVars,
      lineEndingVars, tritonClientVars, tritonModelVars>>

outsideChecksums ==
    <<resolverVars, taggerVars, rehydratorVars, vaultVars, validatorVars,
      registryVars, ipv4Vars, mergerVars, decoderVars, overlapsVars,
      lineEndingVars, tritonClientVars, tritonModelVars>>

outsideIpv4 ==
    <<resolverVars, taggerVars, rehydratorVars, vaultVars, validatorVars,
      registryVars, checksumVars, mergerVars, decoderVars, overlapsVars,
      lineEndingVars, tritonClientVars, tritonModelVars>>

outsideMerger ==
    <<resolverVars, taggerVars, rehydratorVars, vaultVars, validatorVars,
      registryVars, checksumVars, ipv4Vars, decoderVars, overlapsVars,
      lineEndingVars, tritonClientVars, tritonModelVars>>

outsideDecoder ==
    <<resolverVars, taggerVars, rehydratorVars, vaultVars, validatorVars,
      registryVars, checksumVars, ipv4Vars, mergerVars, overlapsVars,
      lineEndingVars, tritonClientVars, tritonModelVars>>

outsideOverlaps ==
    <<resolverVars, taggerVars, rehydratorVars, vaultVars, validatorVars,
      registryVars, checksumVars, ipv4Vars, mergerVars, decoderVars,
      lineEndingVars, tritonClientVars, tritonModelVars>>

outsideLineEnding ==
    <<resolverVars, taggerVars, rehydratorVars, vaultVars, validatorVars,
      registryVars, checksumVars, ipv4Vars, mergerVars, decoderVars,
      overlapsVars, tritonClientVars, tritonModelVars>>

outsideTritonClient ==
    <<resolverVars, taggerVars, rehydratorVars, vaultVars, validatorVars,
      registryVars, checksumVars, ipv4Vars, mergerVars, decoderVars,
      overlapsVars, lineEndingVars, tritonModelVars>>

outsideTritonModel ==
    <<resolverVars, taggerVars, rehydratorVars, vaultVars, validatorVars,
      registryVars, checksumVars, ipv4Vars, mergerVars, decoderVars,
      overlapsVars, lineEndingVars, tritonClientVars>>

\* a component that is not running
ResolverIdle ==
    /\ spans = <<>> /\ prefer = "any" /\ sorted = <<>> /\ result = <<>>
    /\ idx = 1 /\ output = <<>>

TaggerIdle ==
    /\ inText = <<>> /\ inMatches = <<>>
    /\ inPolicy = [reuseIdsForRepeatedPII |-> FALSE]
    /\ tagged = [anonymizedText |-> <<>>, entities |-> <<>>, piiMap |-> <<>>]
    /\ restored = <<>>

RehydratorIdle ==
    /\ doc = <<>> /\ rhText = <<>> /\ rhMap = <<>> /\ rhStrict = FALSE
    /\ rhTags = <<>> /\ rehydrated = <<>>

\* no EncryptedPIIMap, no key, no map
Nothing == <<>>

VaultIdle ==
    /\ vaultMap = Nothing /\ vaultKey = Nothing /\ encrypted = Nothing
    /\ received = Nothing /\ decryptKey = Nothing /\ decrypted = Nothing
    /\ vaultError = "none"

ValidatorIdle ==
    /\ valDoc = <<>> /\ valText = <<>> /\ valEntities = <<>> /\ valKeys = <<>>
    /\ valPolicy = Nothing /\ validation = Nothing

RegistryIdle ==
    /\ recognizers = <<>> /\ regDoc = <<>> /\ regText = <<>>
    /\ regPolicy = Nothing /\ regRan = <<>> /\ regMatches = <<>>

ChecksumsIdle ==
    /\ ibanInput = <<>> /\ ibanResult = Nothing
    /\ luhnInput = <<>> /\ luhnResult = Nothing

Ipv4Idle ==
    /\ ipParts = <<>> /\ ipText = <<>> /\ ipMatches = <<>> /\ ipValid = Nothing

MergerIdle ==
    /\ mergeSpans = <<>> /\ mergeText = <<>> /\ mergeResult = Nothing

DecoderIdle ==
    /\ bioTokens = <<>> /\ bioLabels = <<>> /\ bioConfidences = <<>> /\ bioText = <<>>
    /\ bioIndex = 0 /\ currentEntity = Nothing /\ bioEntities = <<>>

OverlapsIdle ==
    /\ ovSpans = <<>> /\ ovHas = Nothing /\ ovValidate = Nothing

LineEndingIdle ==
    /\ leText = <<>> /\ crlfPositions = Nothing /\ leOffset = 0 /\ leOriginal = 0
    /\ leBack = 0

TritonClientIdle ==
    /\ tcClient = 0 /\ tcConnected = FALSE /\ tcCalls = <<>> /\ tcOpen = {}
    /\ tcCreated = 0 /\ tcCloses = 0

TritonModelIdle ==
    /\ nmClient = 0 /\ nmTokenizer = FALSE /\ nmIsLoaded = FALSE /\ nmLoads = <<>>
    /\ nmCreated = 0 /\ nmClosed = {} /\ nmPredict = "none" /\ nmPredictAt = Nothing

(***************************************************************************)
(* Bounds of the model.                                                    *)
(***************************************************************************)
MaxPos == 4          \* candidate spans lie inside [0, MaxPos]
MaxCandidates == 3   \* length of the candidate list given to the resolver

(***************************************************************************)
(* Generic sequence helpers.                                               *)
(***************************************************************************)
Range(s) == {s[i] : i \in DOMAIN s}

\* Array.prototype.splice(i, 1) on a 1-based sequence
RemoveAt(s, i) == SubSeq(s, 1, i - 1) \o SubSeq(s, i + 1, Len(s))

SeqsUpTo(S, n) == UNION {[1..k -> S] : k \in 0..n}

(***************************************************************************)
(* utils/offsets.ts                                                        *)
(***************************************************************************)
spansOverlap(a, b) == a.start < b.end /\ b.start < a.end

spanLength(span) == span.end - span.start

\* the comparator of sortSpansByPosition: start ascending, then length descending
comparePosition(a, b) ==
    IF a.start # b.start THEN a.start - b.start
    ELSE spanLength(b) - spanLength(a)

\* Array.prototype.sort is stable: x goes after every element that does not
\* compare greater than it.
RECURSIVE InsertByPosition(_, _)
InsertByPosition(s, x) ==
    IF s = <<>> THEN <<x>>
    ELSE IF comparePosition(s[Len(s)], x) <= 0 THEN Append(s, x)
    ELSE Append(InsertByPosition(SubSeq(s, 1, Len(s) - 1), x), s[Len(s)])

RECURSIVE SortPrefix(_, _)
SortPrefix(s, n) ==
    IF n = 0 THEN <<>> ELSE InsertByPosition(SortPrefix(s, n - 1), s[n])

\* a plausible slip: the list is walked in the order it was passed in
sortSpansByPosition_unsorted(s) == s

sortSpansByPosition(s) == SortPrefix(s, Len(s))

\* index of the first already-selected span overlapping `span`, 0 when none
\* (the inner loop breaks at the first overlap)
FirstOverlap(res, span) ==
    IF \E i \in DOMAIN res : spansOverlap(span, res[i])
    THEN CHOOSE i \in DOMAIN res :
            /\ spansOverlap(span, res[i])
            /\ \A j \in 1..(i - 1) : ~spansOverlap(span, res[j])
    ELSE 0

\* what a `prefer` comparator may return; only its sign is read
PreferenceValues == {-1, 0, 1}

\* The comparators the resolver is run with: "longer" prefers the longer span
\* (spanLength(a) - spanLength(b)); "any" stands for every other comparator,
\* each of its calls yielding any of PreferenceValues.
PreferFunctions == {"longer", "any"}

PreferResults(f, a, b) ==
    IF f = "longer" THEN {spanLength(a) - spanLength(b)} ELSE PreferenceValues

\* candidate spans: half-open, non-empty, inside [0, MaxPos]
CandidateSpans ==
    {[start |-> s, end |-> e] : s \in 0..MaxPos, e \in 0..MaxPos} \cap
    {sp \in [start : 0..MaxPos, end : 0..MaxPos] : sp.start < sp.end}

(***************************************************************************)
(* removeOverlappingSpans(spans, prefer), one action per step.             *)
(***************************************************************************)
InitResolver ==
    /\ pc = "remove_start"
    /\ spans \in SeqsUpTo(CandidateSpans, MaxCandidates)
    /\ prefer \in PreferFunctions
    /\ sorted = <<>>
    /\ result = <<>>
    /\ idx = 1
    /\ output = <<>>
    /\ TaggerIdle
    /\ RehydratorIdle
    /\ VaultIdle
    /\ ValidatorIdle
    /\ RegistryIdle
    /\ ChecksumsIdle
    /\ Ipv4Idle
    /\ MergerIdle
    /\ DecoderIdle
    /\ OverlapsIdle
    /\ LineEndingIdle
    /\ TritonClientIdle
    /\ TritonModelIdle

\* lines 65-71: the empty list returns at once, otherwise sort and start the walk
RemoveStart ==
    /\ pc = "remove_start"
    /\ IF Len(spans) = 0
       THEN /\ pc' = "resolved"
            /\ UNCHANGED <<sorted>>
       ELSE /\ pc' = "remove_loop"
            /\ sorted' = sortSpansByPosition(spans)
    /\ UNCHANGED <<spans, prefer, result, idx, output>>
    /\ UNCHANGED outsideResolver

\* lines 73-103: one iteration of `for (const span of sorted)`
RemoveStep ==
    /\ pc = "remove_loop"
    /\ idx <= Len(sorted)
    /\ LET span == sorted[idx]
           i == FirstOverlap(result, span)
       IN  IF i = 0
           THEN result' = Append(result, span)
           ELSE \E preference \in PreferResults(prefer, span, result[i]) :
                    IF preference > 0
                    THEN result' = Append(RemoveAt(result, i), span)
                    ELSE result' = result
    /\ idx' = idx + 1
    /\ UNCHANGED <<pc, spans, prefer, sorted, output>>
    /\ UNCHANGED outsideResolver

\* line 105: return sortSpansByPosition(result)
RemoveReturn ==
    /\ pc = "remove_loop"
    /\ idx > Len(sorted)
    /\ output' = sortSpansByPosition(result)
    /\ pc' = "resolved"
    /\ UNCHANGED <<spans, prefer, sorted, result, idx>>
    /\ UNCHANGED outsideResolver

NextResolver == RemoveStart \/ RemoveStep \/ RemoveReturn

SpecResolver == InitResolver /\ [][NextResolver]_vars

(***************************************************************************)
(* Claims about the resolver.                                              *)
(***************************************************************************)
SomeOverlap(s) ==
    \E i, j \in DOMAIN s : i # j /\ spansOverlap(s[i], s[j])

\* C2: no two spans of the overlap-resolution output overlap, for every
\* candidate list and every outcome of the preference function.
C2_NonOverlap ==
    pc = "resolved" =>
        \A i, j \in DOMAIN output :
            i # j => ~(output[i].start < output[j].end /\ output[j].start < output[i].end)

\* the resolver evicted or rejected a candidate and still returned two spans
C2_Witness ==
    /\ pc = "resolved"
    /\ Len(spans) = 3
    /\ SomeOverlap(spans)
    /\ Len(output) = 2

\* the input of C3's failure under the longer-span-wins comparator
C3_FailingInput ==
    /\ pc = "resolved"
    /\ prefer = "longer"
    /\ spans = <<[start |-> 0, end |-> 2], [start |-> 0, end |-> 1], [start |-> 1, end |-> 4]>>
    /\ output = <<[start |-> 1, end |-> 4]>>

\* C3 (as claimed): every candidate absent from the output overlaps a span of
\* the output, so the output is a maximal non-overlapping set.
C3_Maximal ==
    pc = "resolved" =>
        \A i \in DOMAIN spans :
            spans[i] \notin Range(output) =>
                \E j \in DOMAIN output : spansOverlap(spans[i], output[j])


(***************************************************************************)
(* Strings: String.prototype.slice, template literals, parseInt.           *)
(***************************************************************************)
Min(a, b) == IF a < b THEN a ELSE b
Max(a, b) == IF a > b THEN a ELSE b

\* s.slice(a, b) for 0 <= a: indices are clamped to the length of s
Slice(s, a, b) ==
    LET lo == Min(Max(a, 0), Len(s))
        hi == Min(Max(b, 0), Len(s))
    IN  IF lo >= hi THEN <<>> ELSE SubSeq(s, lo + 1, hi)

\* s.slice(a)
SliceFrom(s, a) == Slice(s, a, Len(s))

RECURSIVE Flatten(_)
Flatten(ss) == IF ss = <<>> THEN <<>> ELSE Head(ss) \o Flatten(Tail(ss))

Digits == <<"0", "1", "2", "3", "4", "5", "6", "7", "8", "9">>

DigitChars == Range(Digits)

DigitValue(c) == (CHOOSE i \in DOMAIN Digits : Digits[i] = c) - 1

\* `${n}` for a non-negative integer: decimal, no leading zeros
RECURSIVE NumberToString(_)
NumberToString(n) ==
    IF n < 10 THEN <<Digits[n + 1]>>
    ELSE Append(NumberToString(n \div 10), Digits[(n % 10) + 1])

\* parseInt(s, 10) for a string of decimal digits
RECURSIVE parseInt(_)
parseInt(s) ==
    IF s = <<>> THEN 0
    ELSE 10 * parseInt(SubSeq(s, 1, Len(s) - 1)) + DigitValue(s[Len(s)])

\* Map<string, string | number>: a function on the set of keys present
EmptyMap == [k \in {} |-> k]

MapHas(m, k) == k \in DOMAIN m

MapSet(m, k, v) == [x \in (DOMAIN m) \cup {k} |-> IF x = k THEN v ELSE m[x]]

(***************************************************************************)
(* types/pii-types.ts: enum PIIType (the values are the tag's type names)  *)
(***************************************************************************)
PERSON == <<"P", "E", "R", "S", "O", "N">>
ORG == <<"O", "R", "G">>
LOCATION == <<"L", "O", "C", "A", "T", "I", "O", "N">>
ADDRESS == <<"A", "D", "D", "R", "E", "S", "S">>
EMAIL == <<"E", "M", "A", "I", "L">>
PHONE == <<"P", "H", "O", "N", "E">>
URL == <<"U", "R", "L">>
IP_ADDRESS == <<"I", "P", "_", "A", "D", "D", "R", "E", "S", "S">>
IBAN == <<"I", "B", "A", "N">>
BIC_SWIFT == <<"B", "I", "C", "_", "S", "W", "I", "F", "T">>
ACCOUNT_NUMBER == <<"A", "C", "C", "O", "U", "N", "T", "_", "N", "U", "M", "B", "E", "R">>
CREDIT_CARD == <<"C", "R", "E", "D", "I", "T", "_", "C", "A", "R", "D">>
TAX_ID == <<"T", "A", "X", "_", "I", "D">>
NATIONAL_ID == <<"N", "A", "T", "I", "O", "N", "A", "L", "_", "I", "D">>
DATE_OF_BIRTH == <<"D", "A", "T", "E", "_", "O", "F", "_", "B", "I", "R", "T", "H">>
CASE_ID == <<"C", "A", "S", "E", "_", "I", "D">>
CUSTOMER_ID == <<"C", "U", "S", "T", "O", "M", "E", "R", "_", "I", "D">>

PIIType ==
    {PERSON, ORG, LOCATION, ADDRESS, EMAIL, PHONE, URL, IP_ADDRESS, IBAN,
     BIC_SWIFT, ACCOUNT_NUMBER, CREDIT_CARD, TAX_ID, NATIONAL_ID,
     DATE_OF_BIRTH, CASE_ID, CUSTOMER_ID}

(***************************************************************************)
(* pipeline/tagger.ts: tagEntities                                         *)
(***************************************************************************)
\* a plausible slip: the tag is written without its closing slash
generateTag_unclosed(type, id) ==
    <<"<", "P", "I", "I", " ", "t", "y", "p", "e", "=", "\"">> \o type \o
    <<"\"", " ", "i", "d", "=", "\"">> \o NumberToString(id) \o <<"\"", ">">>

\* `<PII type="${type}" id="${id}"/>`
generateTag(type, id) ==
    <<"<", "P", "I", "I", " ", "t", "y", "p", "e", "=", "\"">> \o type \o
    <<"\"", " ", "i", "d", "=", "\"">> \o NumberToString(id) \o <<"\"", "/", ">">>

\* `${type}_${id}`
createPIIMapKey(type, id) == type \o <<"_">> \o NumberToString(id)

\* a plausible slip: repeated text shares an ID whatever its category
seenTextKey_textOnly(match) == match.text

\* line 114: `${match.type}:${match.text}`
seenTextKey(match) == match.type \o <<":">> \o match.text

WithId(match, id) ==
    [type |-> match.type, start |-> match.start, end |-> match.end,
     confidence |-> match.confidence, source |-> match.source,
     text |-> match.text, id |-> id]

\* lines 104-127: the ID assignment loop over the first n sorted matches
RECURSIVE AssignIds(_, _, _)
AssignIds(sortedAscending, n, reuseIdsForRepeatedPII) ==
    IF n = 0
    THEN [entitiesWithIds |-> <<>>, nextId |-> 1, seenText |-> EmptyMap]
    ELSE LET prev == AssignIds(sortedAscending, n - 1, reuseIdsForRepeatedPII)
             match == sortedAscending[n]
             key == seenTextKey(match)
         IN  IF reuseIdsForRepeatedPII /\ MapHas(prev.seenText, key)
             THEN [prev EXCEPT !.entitiesWithIds =
                                   Append(@, WithId(match, prev.seenText[key]))]
             ELSE [entitiesWithIds |->
                       Append(prev.entitiesWithIds, WithId(match, prev.nextId)),
                   nextId |-> prev.nextId + 1,
                   seenText |-> IF reuseIdsForRepeatedPII
                                THEN MapSet(prev.seenText, key, prev.nextId)
                                ELSE prev.seenText]

\* lines 130-134: piiMap.set(createPIIMapKey(type, id), text) for each entity
RECURSIVE BuildPIIMap(_, _)
BuildPIIMap(entitiesWithIds, n) ==
    IF n = 0 THEN EmptyMap
    ELSE MapSet(BuildPIIMap(entitiesWithIds, n - 1),
                createPIIMapKey(entitiesWithIds[n].type, entitiesWithIds[n].id),
                entitiesWithIds[n].text)

\* lines 138-140: stable sort with comparator b.start - a.start
RECURSIVE InsertByStartDescending(_, _)
InsertByStartDescending(s, x) ==
    IF s = <<>> THEN <<x>>
    ELSE IF x.start - s[Len(s)].start <= 0 THEN Append(s, x)
    ELSE Append(InsertByStartDescending(SubSeq(s, 1, Len(s) - 1), x), s[Len(s)])

RECURSIVE SortDescendingPrefix(_, _)
SortDescendingPrefix(s, n) ==
    IF n = 0 THEN <<>>
    ELSE InsertByStartDescending(SortDescendingPrefix(s, n - 1), s[n])

\* a plausible slip: the replacements run from the start of the text
sortDescending_ascending(s) == sortSpansByPosition(s)

sortDescending(s) == SortDescendingPrefix(s, Len(s))

\* lines 143-150: the replacement loop over the first n entities of the
\* descending list
RECURSIVE ReplaceSpans(_, _, _)
ReplaceSpans(text, sortedDescending, n) ==
    IF n = 0 THEN text
    ELSE LET anonymizedText == ReplaceSpans(text, sortedDescending, n - 1)
             entity == sortedDescending[n]
             tag == generateTag(entity.type, entity.id)
         IN  Slice(anonymizedText, 0, entity.start) \o tag \o
             SliceFrom(anonymizedText, entity.end)

\* lines 153-161
ToDetectedEntity(e) ==
    [type |-> e.type, id |-> e.id, start |-> e.start, end |-> e.end,
     confidence |-> e.confidence, source |-> e.source, original |-> e.text]

tagEntities(text, matches, policy) ==
    IF Len(matches) = 0
    THEN [anonymizedText |-> text, entities |-> <<>>, piiMap |-> EmptyMap]
    ELSE LET sortedAscending == sortSpansByPosition(matches)
             entitiesWithIds ==
                 AssignIds(sortedAscending, Len(sortedAscending),
                           policy.reuseIdsForRepeatedPII).entitiesWithIds
             sortedDescending == sortDescending(entitiesWithIds)
         IN  [anonymizedText |->
                  ReplaceSpans(text, sortedDescending, Len(sortedDescending)),
              entities |->
                  sortSpansByPosition(
                      [i \in DOMAIN entitiesWithIds |->
                          ToDetectedEntity(entitiesWithIds[i])]),
              piiMap |-> BuildPIIMap(entitiesWithIds, Len(entitiesWithIds))]


(***************************************************************************)
(* Regular expressions of tagger.ts.  A pattern is a sequence of items:    *)
(*   lit  - a literal string                                               *)
(*   star - a character class repeated zero or more times                  *)
(*   plus - a character class repeated one or more times; cap > 0 makes    *)
(*          it capture group number cap                                    *)
(*   one  - one character of a class                                       *)
(*   opt  - an optional literal character                                  *)
(* In every pattern of the source each repeated class is followed by an    *)
(* item that cannot begin with a character of that class, so the longest   *)
(* run is the only one a backtracking matcher can succeed with.            *)
(***************************************************************************)
LowerLetters == <<"a", "b", "c", "d", "e", "f", "g", "h", "i", "j", "k", "l", "m", "n", "o", "p", "q", "r", "s", "t", "u", "v", "w", "x", "y", "z">>

UpperLetters == <<"A", "B", "C", "D", "E", "F", "G", "H", "I", "J", "K", "L", "M", "N", "O", "P", "Q", "R", "S", "T", "U", "V", "W", "X", "Y", "Z">>

\* String.prototype.toUpperCase, one character
UpperOf ==
    [c \in Range(LowerLetters) |->
        UpperLetters[CHOOSE i \in DOMAIN LowerLetters : LowerLetters[i] = c]]

UpperChar(c) == IF c \in DOMAIN UpperOf THEN UpperOf[c] ELSE c

toUpperCase(s) == [i \in DOMAIN s |-> UpperChar(s[i])]

\* \s of a JavaScript regular expression, as far as the model's alphabet goes:
\* space, tab, line feed, U+00A0 (nbsp), U+2002 (ensp)
WhitespaceChars == {" ", "\t", "\n", "nbsp", "ensp"}

\* FLEXIBLE_WS: \s, U+00A0 and U+2000..U+200B; U+200B (zwsp) is not in \s
FlexibleWhitespaceChars == WhitespaceChars \cup {"nbsp", "ensp", "zwsp"}

\* QUOTE_CHARS
QuoteChars ==
    {"\"", "'", "backtick", "laquo", "raquo", "lsquo", "rsquo", "sbquo", "ldquo",
     "rdquo", "bdquo"}

\* [A-Z_]
TypeNameChars == Range(UpperLetters) \cup {"_"}

\* an item keeps its class as written and canonicalized for flag i
Canonical(set) == {UpperChar(x) : x \in set}

Lit(str) == [k |-> "lit", s |-> str, set |-> {}, canon |-> {}, cap |-> 0]
Star(set) == [k |-> "star", s |-> <<>>, set |-> set, canon |-> Canonical(set), cap |-> 0]
Plus(set) == [k |-> "plus", s |-> <<>>, set |-> set, canon |-> Canonical(set), cap |-> 0]
Capture(set, n) == [k |-> "plus", s |-> <<>>, set |-> set, canon |-> Canonical(set), cap |-> n]
One(set) == [k |-> "one", s |-> <<>>, set |-> set, canon |-> Canonical(set), cap |-> 0]
Opt(c) == [k |-> "opt", s |-> <<c>>, set |-> {}, canon |-> {}, cap |-> 0]

\* flag i: characters are compared after canonicalization to upper case
SameChar(a, b, ignoreCase) ==
    IF ignoreCase THEN UpperChar(a) = UpperChar(b) ELSE a = b

InClass(c, item, ignoreCase) ==
    IF ignoreCase THEN UpperChar(c) \in item.canon ELSE c \in item.set

LitMatches(text, pos, str, ignoreCase) ==
    /\ pos + Len(str) <= Len(text)
    /\ \A i \in DOMAIN str : SameChar(text[pos + i], str[i], ignoreCase)

\* end of the longest run of characters of `set` starting at pos
RECURSIVE RunEnd(_, _, _, _)
RunEnd(text, pos, item, ignoreCase) ==
    IF pos < Len(text) /\ InClass(text[pos + 1], item, ignoreCase)
    THEN RunEnd(text, pos + 1, item, ignoreCase)
    ELSE pos

NoMatch == [ok |-> FALSE, end |-> 0, groups |-> <<>>]

\* match items k.. of the pattern at offset pos
RECURSIVE MatchFrom(_, _, _, _, _, _)
MatchFrom(text, pos, items, k, ignoreCase, groups) ==
    IF k > Len(items) THEN [ok |-> TRUE, end |-> pos, groups |-> groups]
    ELSE LET item == items[k] IN
         CASE item.k = "lit" ->
                IF LitMatches(text, pos, item.s, ignoreCase)
                THEN MatchFrom(text, pos + Len(item.s), items, k + 1, ignoreCase, groups)
                ELSE NoMatch
           [] item.k = "star" ->
                MatchFrom(text, RunEnd(text, pos, item, ignoreCase), items,
                          k + 1, ignoreCase, groups)
           [] item.k = "plus" ->
                LET e == RunEnd(text, pos, item, ignoreCase) IN
                IF e = pos THEN NoMatch
                ELSE MatchFrom(text, e, items, k + 1, ignoreCase,
                               IF item.cap > 0
                               THEN [groups EXCEPT ![item.cap] = Slice(text, pos, e)]
                               ELSE groups)
           [] item.k = "one" ->
                IF pos < Len(text) /\ InClass(text[pos + 1], item, ignoreCase)
                THEN MatchFrom(text, pos + 1, items, k + 1, ignoreCase, groups)
                ELSE NoMatch
           [] item.k = "opt" ->
                IF LitMatches(text, pos, item.s, ignoreCase)
                THEN MatchFrom(text, pos + 1, items, k + 1, ignoreCase, groups)
                ELSE MatchFrom(text, pos, items, k + 1, ignoreCase, groups)

MatchAt(text, pos, items, ignoreCase) ==
    MatchFrom(text, pos, items, 1, ignoreCase, <<<<>>, <<>>>>)

\* the loop `while ((match = pattern.exec(text)) !== null)` of a pattern with
\* flag g: each match is the leftmost one at or after lastIndex, and lastIndex
\* moves to its end
RECURSIVE ExecAll(_, _, _, _)
ExecAll(text, items, ignoreCase, lastIndex) ==
    LET starts == {i \in lastIndex..(Len(text) - 1) :
                      text[i + 1] = items[1].s[1] /\ MatchAt(text, i, items, ignoreCase).ok}
    IN  IF starts = {} THEN <<>>
        ELSE LET i == CHOOSE x \in starts : \A y \in starts : x <= y
                 m == MatchAt(text, i, items, ignoreCase)
             IN  <<[index |-> i, matched |-> Slice(text, i, m.end), groups |-> m.groups]>>
                 \o ExecAll(text, items, ignoreCase, m.end)

(***************************************************************************)
(* pipeline/tagger.ts: extractTags, extractTagsStrict, rehydrate           *)
(***************************************************************************)
\* lines 219-224
typeAttr ==
    <<Lit(<<"t", "y", "p", "e">>), Star(FlexibleWhitespaceChars), Lit(<<"=">>),
      Star(FlexibleWhitespaceChars), One(QuoteChars), Capture(TypeNameChars, 1),
      One(QuoteChars)>>

idAttr ==
    <<Lit(<<"i", "d">>), Star(FlexibleWhitespaceChars), Lit(<<"=">>),
      Star(FlexibleWhitespaceChars), One(QuoteChars), Capture(DigitChars, 2),
      One(QuoteChars)>>

selfClosing ==
    <<Star(FlexibleWhitespaceChars), Opt("/"), Star(FlexibleWhitespaceChars),
      Lit(<<">">>)>>

tagOpen ==
    <<Lit(<<"<">>), Star(FlexibleWhitespaceChars), Lit(<<"P", "I", "I">>),
      Plus(FlexibleWhitespaceChars)>>

\* a plausible slip: only the type-first order is tried
buildFuzzyTagPatterns_typeFirstOnly ==
    <<tagOpen \o typeAttr \o <<Plus(FlexibleWhitespaceChars)>> \o idAttr \o selfClosing,
      tagOpen \o typeAttr \o <<Plus(FlexibleWhitespaceChars)>> \o idAttr \o selfClosing>>

\* lines 226-237: both patterns carry the flags g and i.  Capture groups are
\* numbered by what they hold (1 the type, 2 the id), which is the assignment
\* lines 277-283 make from the pattern index.
buildFuzzyTagPatterns ==
    <<tagOpen \o typeAttr \o <<Plus(FlexibleWhitespaceChars)>> \o idAttr \o selfClosing,
      tagOpen \o idAttr \o <<Plus(FlexibleWhitespaceChars)>> \o typeAttr \o selfClosing>>

\* a plausible slip: the strict pattern is the text generateTag writes
tagPattern_canonicalOnly ==
    <<Lit(<<"<", "P", "I", "I", " ", "t", "y", "p", "e", "=", "\"">>), Capture(TypeNameChars, 1),
      Lit(<<"\"", " ", "i", "d", "=", "\"">>), Capture(DigitChars, 2), Lit(<<"\"", "/", ">">>)>>

\* line 314: /<PII\s+type="([A-Z_]+)"\s+id="(\d+)"\s*\/>/g
tagPattern ==
    <<Lit(<<"<", "P", "I", "I">>), Plus(WhitespaceChars), Lit(<<"t", "y", "p", "e", "=", "\"">>),
      Capture(TypeNameChars, 1), Lit(<<"\"">>), Plus(WhitespaceChars),
      Lit(<<"i", "d", "=", "\"">>), Capture(DigitChars, 2), Lit(<<"\"">>),
      Star(WhitespaceChars), Lit(<<"/", ">">>)>>

ExtractedTag(type, id, position, matchedText) ==
    [type |-> type, id |-> id, position |-> position, matchedText |-> matchedText]

\* lines 266-299: the loop over the first n matches of one pattern
RECURSIVE CollectTags(_, _, _)
CollectTags(found, n, acc) ==
    IF n = 0 THEN acc
    ELSE LET prev == CollectTags(found, n - 1, acc)
             match == found[n]
             type == toUpperCase(match.groups[1])
             id == parseInt(match.groups[2])
         IN  IF match.index \in prev.matchedPositions THEN prev
             ELSE IF type \in PIIType
             THEN [tags |-> Append(prev.tags,
                                   ExtractedTag(type, id, match.index, match.matched)),
                   matchedPositions |-> prev.matchedPositions \cup {match.index}]
             ELSE prev

\* line 303 and line 376: stable sorts of the tag list by position
RECURSIVE InsertByPositionField(_, _, _)
InsertByPositionField(s, x, descending) ==
    IF s = <<>> THEN <<x>>
    ELSE IF (IF descending THEN x.position - s[Len(s)].position
             ELSE s[Len(s)].position - x.position) <= 0
         THEN Append(s, x)
    ELSE Append(InsertByPositionField(SubSeq(s, 1, Len(s) - 1), x, descending),
                s[Len(s)])

RECURSIVE SortTagsPrefix(_, _, _)
SortTagsPrefix(s, n, descending) ==
    IF n = 0 THEN <<>>
    ELSE InsertByPositionField(SortTagsPrefix(s, n - 1, descending), s[n], descending)

SortTags(s, descending) == SortTagsPrefix(s, Len(s), descending)

extractTags(anonymizedText) ==
    LET patterns == buildFuzzyTagPatterns
        found0 == ExecAll(anonymizedText, patterns[1], TRUE, 0)
        found1 == ExecAll(anonymizedText, patterns[2], TRUE, 0)
        after0 == CollectTags(found0, Len(found0),
                              [tags |-> <<>>, matchedPositions |-> {}])
        after1 == CollectTags(found1, Len(found1), after0)
    IN  SortTags(after1.tags, FALSE)

extractTagsStrict(anonymizedText) ==
    LET found == ExecAll(anonymizedText, tagPattern, FALSE, 0)
        keep == SelectSeq(found, LAMBDA m : m.groups[1] \in PIIType)
    IN  [i \in DOMAIN keep |->
            ExtractedTag(keep[i].groups[1], parseInt(keep[i].groups[2]),
                         keep[i].index, keep[i].matched)]

\* a plausible slip: the splice removes the canonical tag's length
spliceLength_canonical(tag) == Len(generateTag(tag.type, tag.id))

\* line 388: matchedText.length
spliceLength(tag) == Len(tag.matchedText)

\* a plausible slip: a tag without an entry in the map is replaced by nothing
ResolveTag_dropsUnresolved(res, tag, piiMap) ==
    Slice(res, 0, tag.position) \o
    (IF MapHas(piiMap, createPIIMapKey(tag.type, tag.id))
     THEN piiMap[createPIIMapKey(tag.type, tag.id)] ELSE <<>>) \o
    SliceFrom(res, tag.position + spliceLength(tag))

\* lines 379-389: the body of the replacement loop
ResolveTag(res, tag, piiMap) ==
    LET key == createPIIMapKey(tag.type, tag.id) IN
    IF MapHas(piiMap, key)
    THEN Slice(res, 0, tag.position) \o piiMap[key] \o
         SliceFrom(res, tag.position + spliceLength(tag))
    ELSE res

\* lines 378-390: the replacement loop over the first n tags of the descending list
RECURSIVE ReplaceTags(_, _, _, _)
ReplaceTags(anonymizedText, tags, n, piiMap) ==
    IF n = 0 THEN anonymizedText
    ELSE ResolveTag(ReplaceTags(anonymizedText, tags, n - 1, piiMap), tags[n], piiMap)

\* lines 370-376: the tags found, sorted by position descending
rehydrateTags(anonymizedText, strict) ==
    SortTags(IF strict THEN extractTagsStrict(anonymizedText)
             ELSE extractTags(anonymizedText), TRUE)

rehydrate(anonymizedText, piiMap, strict) ==
    LET tags == rehydrateTags(anonymizedText, strict)
    IN  ReplaceTags(anonymizedText, tags, Len(tags), piiMap)

(***************************************************************************)
(* The tagger run on a text and a list of spans, then the rehydrator on    *)
(* what the tagger returned.                                               *)
(*                                                                         *)
(* A text is written as a sequence of pieces; spans begin and end where    *)
(* pieces do.  One piece is a text that already reads as a placeholder     *)
(* tag.                                                                    *)
(***************************************************************************)
MaxPieces == 3       \* pieces per text
MaxMatches == 2      \* spans per text

TagLikeText == generateTag(EMAIL, 1)

TextPieces == {<<"a">>, TagLikeText}

\* the categories of the spans given to the tagger
MatchTypes == {EMAIL, URL}

\* offset at which piece number i + 1 begins (the end of the text for i = Len)
RECURSIVE PieceOffset(_, _)
PieceOffset(pieces, i) ==
    IF i = 0 THEN 0 ELSE PieceOffset(pieces, i - 1) + Len(pieces[i])

\* SpanMatch records over the pieces: text is text.slice(start, end)
SpanMatches(pieces) ==
    {[type |-> t, start |-> PieceOffset(pieces, i), end |-> PieceOffset(pieces, j),
      confidence |-> 90, source |-> "REGEX",
      text |-> Slice(Flatten(pieces), PieceOffset(pieces, i), PieceOffset(pieces, j))] :
        t \in MatchTypes, i \in 0..(Len(pieces) - 1), j \in 1..Len(pieces)}
    \cap {m \in [type : MatchTypes, start : Nat, end : Nat, confidence : {90},
                 source : {"REGEX"}, text : Seq(STRING)] : m.start < m.end}

NoOverlaps(s) == \A i, j \in DOMAIN s : i # j => ~spansOverlap(s[i], s[j])

\* lists of pairwise non-overlapping spans, in any order
MatchLists(pieces) ==
    {ms \in SeqsUpTo(SpanMatches(pieces), MaxMatches) : NoOverlaps(ms)}

InitTagger ==
    /\ pc = "tag_input"
    /\ \E pieces \in SeqsUpTo(TextPieces, MaxPieces) :
        /\ inText = Flatten(pieces)
        /\ inMatches \in MatchLists(pieces)
    /\ inPolicy \in [reuseIdsForRepeatedPII : BOOLEAN]
    /\ tagged = [anonymizedText |-> <<>>, entities |-> <<>>, piiMap |-> <<>>]
    /\ restored = <<>>
    /\ ResolverIdle
    /\ RehydratorIdle
    /\ VaultIdle
    /\ ValidatorIdle
    /\ RegistryIdle
    /\ ChecksumsIdle
    /\ Ipv4Idle
    /\ MergerIdle
    /\ DecoderIdle
    /\ OverlapsIdle
    /\ LineEndingIdle
    /\ TritonClientIdle
    /\ TritonModelIdle

TagEntities ==
    /\ pc = "tag_input"
    /\ tagged' = tagEntities(inText, inMatches, inPolicy)
    /\ pc' = "tagged"
    /\ UNCHANGED <<inText, inMatches, inPolicy, restored>>
    /\ UNCHANGED outsideTagger

\* rehydrate(anonymizedText, piiMap): strict defaults to false
RehydrateTagged ==
    /\ pc = "tagged"
    /\ restored' = rehydrate(tagged.anonymizedText, tagged.piiMap, FALSE)
    /\ pc' = "restored"
    /\ UNCHANGED <<inText, inMatches, inPolicy, tagged>>
    /\ UNCHANGED outsideTagger

NextTagger == TagEntities \/ RehydrateTagged

SpecTagger == InitTagger /\ [][NextTagger]_vars

(***************************************************************************)
(* Claims about the tagger.                                                *)
(***************************************************************************)
Tagged == pc \in {"tagged", "restored"}

\* a span without the fields the tagger adds or renames
SpanOf(e) == [type |-> e.type, start |-> e.start, end |-> e.end]

SpansOf(s) == {SpanOf(s[i]) : i \in DOMAIN s}

\* C1 (as claimed): rehydrating the tagger's output with the tagger's map
\* returns the original text, for any text, any non-overlapping spans inside
\* it and both values of the ID-reuse flag.
C1_RoundTrip ==
    pc = "restored" => restored = inText

\* what is left of the round trip: it holds when every part of the text that
\* reads as a placeholder tag lies inside a span
TagLikeTextInsideSpans ==
    \A i \in DOMAIN extractTags(inText) :
        LET t == extractTags(inText)[i] IN
        \E j \in DOMAIN inMatches :
            /\ inMatches[j].start <= t.position
            /\ t.position + Len(t.matchedText) <= inMatches[j].end

C1_RoundTripWithoutTagLikeText ==
    (pc = "restored" /\ TagLikeTextInsideSpans) => restored = inText

\* the text `a<PII type="EMAIL" id="1"/>` with the span [0, 1) of category
\* EMAIL comes back as `aa`
C1_FailingInput ==
    /\ pc = "restored"
    /\ inText = <<"a">> \o TagLikeText
    /\ Len(inMatches) = 1 /\ inMatches[1].start = 0 /\ inMatches[1].end = 1
    /\ inMatches[1].type = EMAIL
    /\ restored = <<"a", "a">>

\* C4: without ID reuse the n spans get, in ascending start order and whatever
\* the order they were passed in, exactly the IDs 1..n, and the entities are
\* returned in that order.
C4_IdMonotonic ==
    (Tagged /\ ~inPolicy.reuseIdsForRepeatedPII) =>
        /\ Len(tagged.entities) = Len(inMatches)
        /\ SpansOf(tagged.entities) = SpansOf(inMatches)
        /\ \A i \in DOMAIN tagged.entities : tagged.entities[i].id = i
        /\ \A i, j \in DOMAIN tagged.entities :
               i < j => tagged.entities[i].start < tagged.entities[j].start

\* two spans passed in descending start order, tagged without ID reuse
C4_Witness ==
    /\ Tagged
    /\ ~inPolicy.reuseIdsForRepeatedPII
    /\ Len(inMatches) = 2
    /\ inMatches[1].start > inMatches[2].start
    /\ tagged.entities[2].id = 2

SameValue(a, b) == a.type = b.type /\ a.original = b.original

C5_WitnessOtherCategory ==
    /\ Tagged
    /\ inPolicy.reuseIdsForRepeatedPII
    /\ \E i, j \in DOMAIN tagged.entities :
          /\ tagged.entities[i].original = tagged.entities[j].original
          /\ tagged.entities[i].type # tagged.entities[j].type
          /\ tagged.entities[i].id # tagged.entities[j].id

\* the original text with every span replaced by the tag of its category and
\* ID, written from left to right: entities k.. in position order, the text
\* before `cursor` being already written
RECURSIVE TextWithTags(_, _, _, _)
TextWithTags(original, entities, k, cursor) ==
    IF k > Len(entities) THEN SliceFrom(original, cursor)
    ELSE Slice(original, cursor, entities[k].start)
         \o generateTag(entities[k].type, entities[k].id)
         \o TextWithTags(original, entities, k + 1, entities[k].end)

\* C6: the anonymized text is the original text with each span [start, end)
\* replaced by the canonical tag of its category and ID, every other character
\* kept in order, and each entity keeps its offsets in the original text.
C6_OnlySpansChange ==
    Tagged =>
        /\ tagged.anonymizedText = TextWithTags(inText, tagged.entities, 1, 0)
        /\ SpansOf(tagged.entities) = SpansOf(inMatches)
        /\ \A i \in DOMAIN tagged.entities :
               Slice(inText, tagged.entities[i].start, tagged.entities[i].end)
                   = tagged.entities[i].original

\* two spans, one shorter and one longer than its tag, and text outside them
C6_Witness ==
    /\ Tagged
    /\ Len(tagged.entities) = 2
    /\ \E i, j \in DOMAIN tagged.entities :
          /\ spanLength(tagged.entities[i])
                 < Len(generateTag(tagged.entities[i].type, tagged.entities[i].id))
          /\ spanLength(tagged.entities[j])
                 > Len(generateTag(tagged.entities[j].type, tagged.entities[j].id))
    /\ Len(inText) > spanLength(tagged.entities[1]) + spanLength(tagged.entities[2])


(***************************************************************************)
(* The rehydrator run on a text whose tags went through another            *)
(* processor.  The text is written from a list of tags, each in one of the *)
(* forms the doc comment of extractTags lists (quotes, whitespace, case,   *)
(* attribute order, self-closing syntax), with a filler text before,       *)
(* between and after them.                                                 *)
(***************************************************************************)
MaxTags == 2         \* tags per text

\* the parts a tag is written from
CanonicalParts ==
    [open |-> <<"<", "P", "I", "I">>, sep1 |-> <<" ">>, swapped |-> FALSE,
     typeName |-> <<"t", "y", "p", "e">>, idName |-> <<"i", "d">>, eq |-> <<"=">>,
     typeQuotes |-> <<"\"", "\"">>, idQuotes |-> <<"\"", "\"">>, sep2 |-> <<" ">>,
     zeros |-> <<>>, close |-> <<"/", ">">>]

TagForms ==
    [canonical |-> CanonicalParts,
     swapped |-> [CanonicalParts EXCEPT !.swapped = TRUE],
     lower_tag |-> [CanonicalParts EXCEPT !.open = <<"<", "p", "i", "i">>],
     upper_attrs |-> [CanonicalParts EXCEPT !.typeName = <<"T", "Y", "P", "E">>,
                                             !.idName = <<"I", "d">>],
     single_quotes |-> [CanonicalParts EXCEPT !.typeQuotes = <<"'", "'">>,
                                               !.idQuotes = <<"'", "'">>],
     typographic_quotes |-> [CanonicalParts EXCEPT !.typeQuotes = <<"bdquo", "ldquo">>,
                                                    !.idQuotes = <<"laquo", "raquo">>],
     eq_spaces |-> [CanonicalParts EXCEPT !.eq = <<" ", "=", " ">>],
     wide_sep |-> [CanonicalParts EXCEPT !.sep1 = <<" ", " ">>, !.sep2 = <<"\n", "\t">>],
     unicode_sep |-> [CanonicalParts EXCEPT !.sep1 = <<"nbsp">>, !.sep2 = <<"zwsp">>],
     space_close |-> [CanonicalParts EXCEPT !.close = <<" ", "/", ">">>],
     split_close |-> [CanonicalParts EXCEPT !.close = <<"/", " ", ">">>],
     bare_close |-> [CanonicalParts EXCEPT !.close = <<">">>],
     leading_zero |-> [CanonicalParts EXCEPT !.zeros = <<"0">>],
     \* <pii  id = '1'  type = "EMAIL" />
     translated |-> [CanonicalParts EXCEPT !.open = <<"<", "p", "i", "i">>, !.sep1 = <<" ", " ">>,
                                            !.swapped = TRUE, !.eq = <<" ", "=", " ">>,
                                            !.idQuotes = <<"'", "'">>,
                                            !.sep2 = <<" ", " ">>,
                                            !.close = <<" ", "/", ">">>]]

FormNames == DOMAIN TagForms

WriteTag(tag) ==
    LET p == TagForms[tag.form]
        typeText == p.typeName \o p.eq \o <<p.typeQuotes[1]>> \o tag.type
                    \o <<p.typeQuotes[2]>>
        idText == p.idName \o p.eq \o <<p.idQuotes[1]>> \o p.zeros
                  \o NumberToString(tag.id) \o <<p.idQuotes[2]>>
    IN  p.open \o p.sep1
        \o (IF p.swapped THEN idText \o p.sep2 \o typeText
            ELSE typeText \o p.sep2 \o idText)
        \o p.close

\* the tags of the texts: EMAIL 1 in every form, URL 2 as written by the
\* tagger and as in the example above
DocTags ==
    {[type |-> EMAIL, id |-> 1, form |-> f] : f \in FormNames} \cup
    {[type |-> URL, id |-> 2, form |-> f] : f \in {"canonical", "translated"}}

Fillers == {<<>>, <<"x">>}

\* filler, tag 1, filler, ..., tag n, filler
RECURSIVE WriteDoc(_, _, _)
WriteDoc(tagList, filler, n) ==
    IF n = 0 THEN filler
    ELSE WriteDoc(tagList, filler, n - 1) \o WriteTag(tagList[n]) \o filler

OriginalEmail == <<"j", "@", "d">>

OriginalUrl == <<"w", ".", "e", ".", "o", "r", "g">> \o TagLikeText

\* the maps given to rehydrate: complete, and without the entry URL_2
PIIMaps ==
    {MapSet(MapSet(EmptyMap, createPIIMapKey(EMAIL, 1), OriginalEmail),
            createPIIMapKey(URL, 2), OriginalUrl),
     MapSet(EmptyMap, createPIIMapKey(EMAIL, 1), OriginalEmail)}

InitRehydrator ==
    /\ pc = "rehydrate_input"
    /\ doc \in [tagList : SeqsUpTo(DocTags, MaxTags), filler : Fillers]
    /\ rhText = WriteDoc(doc.tagList, doc.filler, Len(doc.tagList))
    /\ rhMap \in PIIMaps
    /\ rhStrict = FALSE
    /\ rhTags = <<>>
    /\ rehydrated = <<>>
    /\ ResolverIdle
    /\ TaggerIdle
    /\ VaultIdle
    /\ ValidatorIdle
    /\ RegistryIdle
    /\ ChecksumsIdle
    /\ Ipv4Idle
    /\ MergerIdle
    /\ DecoderIdle
    /\ OverlapsIdle
    /\ LineEndingIdle
    /\ TritonClientIdle
    /\ TritonModelIdle

Rehydrate ==
    /\ pc = "rehydrate_input"
    /\ \E strict \in BOOLEAN :
        /\ rhStrict' = strict
        /\ rhTags' = rehydrateTags(rhText, strict)
        /\ rehydrated' = rehydrate(rhText, rhMap, strict)
    /\ pc' = "rehydrated"
    /\ UNCHANGED <<doc, rhText, rhMap>>
    /\ UNCHANGED outsideRehydrator

NextRehydrator == Rehydrate

SpecRehydrator == InitRehydrator /\ [][NextRehydrator]_vars


(***************************************************************************)
(* Claims about the rehydrator.                                            *)
(***************************************************************************)
DocKey(i) == createPIIMapKey(doc.tagList[i].type, doc.tagList[i].id)

\* offset of tag i in the text given to rehydrate
RECURSIVE TagOffset(_)
TagOffset(i) ==
    IF i = 1 THEN Len(doc.filler)
    ELSE TagOffset(i - 1) + Len(WriteTag(doc.tagList[i - 1])) + Len(doc.filler)

\* tag i of the text was recognised: a tag was found at its offset
Recognised(i) == \E k \in DOMAIN rhTags : rhTags[k].position = TagOffset(i)

\* what stands for tag i in the rehydrated text
Outcome(i) ==
    IF Recognised(i) /\ MapHas(rhMap, DocKey(i)) THEN rhMap[DocKey(i)]
    ELSE WriteTag(doc.tagList[i])

\* offset of the outcome of tag i in the rehydrated text
RECURSIVE OutcomeOffset(_)
OutcomeOffset(i) ==
    IF i = 1 THEN Len(doc.filler)
    ELSE OutcomeOffset(i - 1) + Len(Outcome(i - 1)) + Len(doc.filler)

RECURSIVE SplicedText(_, _, _, _, _)
SplicedText(anonymizedText, tagsDescending, n, cursor, piiMap) ==
    IF n = 0 THEN SliceFrom(anonymizedText, cursor)
    ELSE LET tag == tagsDescending[n]
             key == createPIIMapKey(tag.type, tag.id)
             stop == tag.position + Len(tag.matchedText)
         IN  Slice(anonymizedText, cursor, tag.position)
             \o (IF key \in DOMAIN piiMap THEN piiMap[key]
                 ELSE Slice(anonymizedText, tag.position, stop))
             \o SplicedText(anonymizedText, tagsDescending, n - 1, stop, piiMap)

\* C8: each resolved tag is replaced by its mapped value over exactly the
\* characters that were matched, whatever the length of the matched text, and
\* every character outside the matched tags is kept, in order.
C8_SpliceByMatchedLength ==
    pc = "rehydrated" =>
        /\ \A k \in DOMAIN rhTags :
               Slice(rhText, rhTags[k].position,
                     rhTags[k].position + Len(rhTags[k].matchedText))
                   = rhTags[k].matchedText
        /\ rehydrated = SplicedText(rhText, rhTags, Len(rhTags), 0, rhMap)

\* two resolved tags, one of them longer than the canonical tag, with text
\* around them
C8_Witness ==
    /\ pc = "rehydrated"
    /\ Len(rhTags) = 2
    /\ doc.filler # <<>>
    /\ \A k \in DOMAIN rhTags :
          MapHas(rhMap, createPIIMapKey(rhTags[k].type, rhTags[k].id))
    /\ \E k \in DOMAIN rhTags :
          Len(rhTags[k].matchedText)
              # Len(generateTag(rhTags[k].type, rhTags[k].id))

\* C9 (as claimed): strict mode recognises a tag only in the exact canonical
\* form <PII type="CATEGORY" id="N"/>; any text deviating from it is left
\* untouched.
C9_StrictOnlyCanonical ==
    (pc = "rehydrated" /\ rhStrict) =>
        \A k \in DOMAIN rhTags :
            rhTags[k].matchedText = generateTag(rhTags[k].type, rhTags[k].id)

\* the forms of the strict pattern: those of the canonical form, with one or
\* more \s characters after PII and between the attributes, any \s before
\* "/>", and any run of decimal digits as id
StrictForms == {"canonical", "wide_sep", "space_close", "leading_zero"}

\* C9 (amended): strict mode recognises a tag exactly when it has uppercase
\* names, type before id, double quotes, nothing around '=', one or more
\* whitespace characters (\s) after PII and between the attributes, optional
\* whitespace before "/>" and a run of decimal digits as id (leading zeros
\* allowed); every other tag is left untouched.
C9_StrictGrammar ==
    (pc = "rehydrated" /\ rhStrict) =>
        /\ \A i \in DOMAIN doc.tagList :
               Recognised(i) <=> doc.tagList[i].form \in StrictForms
        /\ \A i \in DOMAIN doc.tagList :
               doc.tagList[i].form \notin StrictForms =>
                   Slice(rehydrated, OutcomeOffset(i),
                         OutcomeOffset(i) + Len(WriteTag(doc.tagList[i])))
                       = WriteTag(doc.tagList[i])
        /\ \A k \in DOMAIN rhTags :
               \E i \in DOMAIN doc.tagList :
                   /\ rhTags[k].position = TagOffset(i)
                   /\ rhTags[k].matchedText = WriteTag(doc.tagList[i])
                   /\ rhTags[k].type = doc.tagList[i].type
                   /\ rhTags[k].id = doc.tagList[i].id

\* strict mode replaced a tag written with wider whitespace and left a
\* translated tag untouched
C9_Witness ==
    /\ pc = "rehydrated"
    /\ rhStrict
    /\ \E i, j \in DOMAIN doc.tagList :
          /\ doc.tagList[i].form = "wide_sep"
          /\ Recognised(i)
          /\ doc.tagList[j].form = "translated"
          /\ ~Recognised(j)
    /\ rehydrated # rhText

\* C10: a recognised tag whose CATEGORY_ID key is absent from the map keeps
\* its characters in the output, while every other recognised tag whose key is
\* present is replaced.
C10_UnresolvedLeftAsIs ==
    pc = "rehydrated" =>
        \A i \in DOMAIN doc.tagList :
            /\ (Recognised(i) /\ ~MapHas(rhMap, DocKey(i))) =>
                   Slice(rehydrated, OutcomeOffset(i),
                         OutcomeOffset(i) + Len(WriteTag(doc.tagList[i])))
                       = WriteTag(doc.tagList[i])
            /\ (Recognised(i) /\ MapHas(rhMap, DocKey(i))) =>
                   Slice(rehydrated, OutcomeOffset(i),
                         OutcomeOffset(i) + Len(rhMap[DocKey(i)]))
                       = rhMap[DocKey(i)]
            /\ Len(rehydrated) =
                   OutcomeOffset(Len(doc.tagList)) + Len(Outcome(Len(doc.tagList)))
                       + Len(doc.filler)

\* a recognised tag without an entry in the map next to a replaced one
C10_Witness ==
    /\ pc = "rehydrated"
    /\ \E i, j \in DOMAIN doc.tagList :
          /\ Recognised(i) /\ ~MapHas(rhMap, DocKey(i))
          /\ Recognised(j) /\ MapHas(rhMap, DocKey(j))
          /\ i < j

(***************************************************************************)
(* The PII vault: authenticated encryption of the serialized plaintext     *)
(* map.  A key is its length in bytes and its material; the cipher adds a  *)
(* key stream to the serialized map byte by byte, and the authentication   *)
(* tag is the ideal one: it names the key material, the nonce and the      *)
(* ciphertext it was computed over.                                        *)
(***************************************************************************)
MaxPlainLen == 2     \* bytes of a serialized map

KEY_LENGTH == 32

Bytes == 0 .. 3

\* the serialized maps given to the vault
SerializedMaps == SeqsUpTo(Bytes, MaxPlainLen) \ {<<>>}

Keys == [length : {16, KEY_LENGTH, 33}, material : 1 .. 2]

Nonces == 0 .. 1

validateKey(key) == key.length = KEY_LENGTH

KeyStream(key, iv, i) == (key.material + iv + i) % Cardinality(Bytes)

Cipher(data, key, iv) ==
    [i \in DOMAIN data |-> (data[i] + KeyStream(key, iv, i)) % Cardinality(Bytes)]

Decipher(data, key, iv) ==
    [i \in DOMAIN data |->
        (data[i] + Cardinality(Bytes) - KeyStream(key, iv, i)) % Cardinality(Bytes)]

AuthTag(key, iv, ciphertext) ==
    [material |-> key.material, iv |-> iv, ciphertext |-> ciphertext]

EncryptedPIIMap(ciphertext, iv, authTag) ==
    [ciphertext |-> ciphertext, iv |-> iv, authTag |-> authTag]

\* the key is checked before any cryptographic operation
encryptPIIMap(piiMap, key, iv) ==
    IF ~validateKey(key)
    THEN [error |-> "Invalid key length", value |-> Nothing]
    ELSE LET ciphertext == Cipher(piiMap, key, iv)
         IN  [error |-> "none",
              value |-> EncryptedPIIMap(ciphertext, iv, AuthTag(key, iv, ciphertext))]

\* a plausible slip: the plaintext is returned without checking the tag
decryptPIIMap_unauthenticated(encryptedMap, key) ==
    IF ~validateKey(key)
    THEN [error |-> "Invalid key length", value |-> Nothing]
    ELSE [error |-> "none",
          value |-> Decipher(encryptedMap.ciphertext, key, encryptedMap.iv)]

\* fails closed: no plaintext unless the tag authenticates the ciphertext
\* under this key
decryptPIIMap(encryptedMap, key) ==
    IF ~validateKey(key)
    THEN [error |-> "Invalid key length", value |-> Nothing]
    ELSE IF AuthTag(key, encryptedMap.iv, encryptedMap.ciphertext) # encryptedMap.authTag
    THEN [error |-> "Authentication failure", value |-> Nothing]
    ELSE [error |-> "none",
          value |-> Decipher(encryptedMap.ciphertext, key, encryptedMap.iv)]

InitVault ==
    /\ pc = "vault_input"
    /\ vaultMap \in SerializedMaps
    /\ vaultKey \in Keys
    /\ encrypted = Nothing /\ received = Nothing /\ decryptKey = Nothing
    /\ decrypted = Nothing /\ vaultError = "none"
    /\ ResolverIdle
    /\ TaggerIdle
    /\ RehydratorIdle
    /\ ValidatorIdle
    /\ RegistryIdle
    /\ ChecksumsIdle
    /\ Ipv4Idle
    /\ MergerIdle
    /\ DecoderIdle
    /\ OverlapsIdle
    /\ LineEndingIdle
    /\ TritonClientIdle
    /\ TritonModelIdle

\* encryptPIIMap(piiMap, key) with a fresh nonce
Encrypt ==
    /\ pc = "vault_input"
    /\ \E iv \in Nonces :
          LET outcome == encryptPIIMap(vaultMap, vaultKey, iv) IN
          /\ encrypted' = outcome.value
          /\ received' = outcome.value
          /\ vaultError' = outcome.error
          /\ pc' = IF outcome.error = "none" THEN "encrypted" ELSE "encrypt_failed"
    /\ UNCHANGED <<vaultMap, vaultKey, decryptKey, decrypted>>
    /\ UNCHANGED outsideVault

\* one byte of the ciphertext is altered on the way to decryptPIIMap
Tamper ==
    /\ pc = "encrypted"
    /\ \E i \in DOMAIN received.ciphertext, b \in Bytes :
          /\ b # received.ciphertext[i]
          /\ received' = [received EXCEPT !.ciphertext[i] = b]
    /\ UNCHANGED <<pc, vaultMap, vaultKey, encrypted, decryptKey, decrypted, vaultError>>
    /\ UNCHANGED outsideVault

\* decryptPIIMap(encrypted, key)
Decrypt ==
    /\ pc = "encrypted"
    /\ \E key \in Keys :
          LET outcome == decryptPIIMap(received, key) IN
          /\ decryptKey' = key
          /\ decrypted' = outcome.value
          /\ vaultError' = outcome.error
    /\ pc' = "decrypt_done"
    /\ UNCHANGED <<vaultMap, vaultKey, encrypted, received>>
    /\ UNCHANGED outsideVault

NextVault == Encrypt \/ Tamper \/ Decrypt

SpecVault == InitVault /\ [][NextVault]_vars

\* C11: decrypting with a 32-byte key other than the encrypting key, or after
\* a byte of the ciphertext was altered, raises an error and yields no
\* plaintext map; encrypting with a key that is not 32 bytes long raises an
\* error and produces no ciphertext.
C11_VaultFailsClosed ==
    /\ (pc = "decrypt_done"
            /\ (decryptKey # vaultKey \/ received.ciphertext # encrypted.ciphertext))
        => (vaultError # "none" /\ decrypted = Nothing)
    /\ (pc # "vault_input" /\ vaultKey.length # KEY_LENGTH)
        => (pc = "encrypt_failed" /\ vaultError = "Invalid key length"
            /\ encrypted = Nothing)
    /\ (pc = "decrypt_done" /\ vaultError = "none") => decrypted = vaultMap

\* a 32-byte key other than the encrypting key was refused
C11_Witness ==
    /\ pc = "decrypt_done"
    /\ decryptKey.length = KEY_LENGTH
    /\ decryptKey # vaultKey
    /\ received = encrypted
    /\ vaultError = "Authentication failure"

(***************************************************************************)
(* pipeline/tagger.ts: parseTag, isValidTag                                *)
(* pipeline/validator.ts: the checks of validateOutput                     *)
(***************************************************************************)
\* the pattern of parseTag is anchored at both ends
parseTag(tag) ==
    LET m == MatchAt(tag, 0, tagPattern, FALSE) IN
    IF ~m.ok \/ m.end # Len(tag) THEN Nothing
    ELSE IF m.groups[1] \notin PIIType THEN Nothing
    ELSE [type |-> m.groups[1], id |-> parseInt(m.groups[2])]

isValidTag(tag) == parseTag(tag) # Nothing

ValidationError(code, details) == [code |-> code, details |-> details]

\* a plausible slip: the loop over j stops at the first overlap it finds
RECURSIVE OverlapsWith_firstOnly(_, _, _)
OverlapsWith_firstOnly(entities, i, j) ==
    IF j > Len(entities) THEN <<>>
    ELSE IF spansOverlap(entities[i], entities[j])
    THEN <<ValidationError("OVERLAPPING_ENTITIES",
               [entity1 |-> [id |-> entities[i].id, type |-> entities[i].type,
                             start |-> entities[i].start, end |-> entities[i].end],
                entity2 |-> [id |-> entities[j].id, type |-> entities[j].type,
                             start |-> entities[j].start, end |-> entities[j].end]])>>
    ELSE OverlapsWith_firstOnly(entities, i, j + 1)

\* the loop over j of checkOverlappingEntities, for one i
RECURSIVE OverlapsWith(_, _, _)
OverlapsWith(entities, i, j) ==
    IF j > Len(entities) THEN <<>>
    ELSE (IF spansOverlap(entities[i], entities[j])
          THEN <<ValidationError("OVERLAPPING_ENTITIES",
                     [entity1 |-> [id |-> entities[i].id, type |-> entities[i].type,
                                   start |-> entities[i].start, end |-> entities[i].end],
                      entity2 |-> [id |-> entities[j].id, type |-> entities[j].type,
                                   start |-> entities[j].start, end |-> entities[j].end]])>>
          ELSE <<>>)
         \o OverlapsWith(entities, i, j + 1)

\* the loop over i, from i on
RECURSIVE OverlapsFrom(_, _)
OverlapsFrom(entities, i) ==
    IF i > Len(entities) THEN <<>>
    ELSE OverlapsWith(entities, i, i + 1) \o OverlapsFrom(entities, i + 1)

checkOverlappingEntities(entities) == OverlapsFrom(entities, 1)

\* a plausible slip: every repeated ID is reported, whatever the texts
SameOriginal_ignored(existing, entity) == FALSE

\* line 190: existing.original !== entity.original
SameOriginal(existing, entity) == existing.original = entity.original

\* the loop of checkUniqueIds over the first n entities
RECURSIVE UniqueIdsLoop(_, _)
UniqueIdsLoop(entities, n) ==
    IF n = 0 THEN [errors |-> <<>>, seenIds |-> EmptyMap]
    ELSE LET prev == UniqueIdsLoop(entities, n - 1)
             entity == entities[n]
         IN  IF MapHas(prev.seenIds, entity.id)
             THEN LET existing == prev.seenIds[entity.id] IN
                  IF ~SameOriginal(existing, entity)
                  THEN [prev EXCEPT !.errors = Append(@,
                           ValidationError("DUPLICATE_IDS",
                               [id |-> entity.id,
                                first |-> [type |-> existing.type, text |-> existing.original],
                                second |-> [type |-> entity.type, text |-> entity.original]]))]
                  ELSE prev
             ELSE [prev EXCEPT !.seenIds = MapSet(@, entity.id, entity)]

checkUniqueIds(entities) == UniqueIdsLoop(entities, Len(entities)).errors

\* the characters of the model's texts
AllChars ==
    Range(LowerLetters) \cup Range(UpperLetters) \cup DigitChars
    \cup FlexibleWhitespaceChars \cup QuoteChars
    \cup {"<", ">", "/", "=", "_", ".", "@", "-", "+", "%", ":"}

\* line 216: /<PII[^>]*>/g
tagLikePattern ==
    <<Lit(<<"<", "P", "I", "I">>), Star(AllChars \ {">"}), Lit(<<">">>)>>

endsWith(str, suffix) ==
    /\ Len(str) >= Len(suffix)
    /\ SubSeq(str, Len(str) - Len(suffix) + 1, Len(str)) = suffix

\* lines 221-223
IsMalformed(matched) ==
    LET fullTag == IF endsWith(matched, <<"/", ">">>) THEN matched
                   ELSE matched \o <<"/", ">">>
    IN  ~isValidTag(fullTag) /\ ~endsWith(matched, <<"/", ">">>)

\* lines 224-228: the errors pushed for the malformed matches
MalformedTagErrors(bad) ==
    [i \in DOMAIN bad |->
        ValidationError("MALFORMED_TAG",
                        [tag |-> bad[i].matched, position |-> bad[i].index])]

checkTags(anonymizedText) ==
    MalformedTagErrors(SelectSeq(ExecAll(anonymizedText, tagLikePattern, FALSE, 0),
                                 LAMBDA m : IsMalformed(m.matched)))

\* the elements of a Set built from an array, in insertion order
RECURSIVE InsertionOrder(_, _)
InsertionOrder(s, n) ==
    IF n = 0 THEN <<>>
    ELSE LET prev == InsertionOrder(s, n - 1) IN
         IF s[n] \in Range(prev) THEN prev ELSE Append(prev, s[n])

\* a plausible slip: the IDs are looked up among the tags of the strict pattern
tagsOfText_strict(anonymizedText) == extractTagsStrict(anonymizedText)

\* line 243
tagsOfText(anonymizedText) == extractTags(anonymizedText)

\* lines 246-247: the IDs of a list of entities or tags, as a list
IdsOf(list) == [i \in DOMAIN list |-> list[i].id]

\* lines 250-258: one error for each entity ID that no tag carries
IdMismatchErrors(entityIds, tagIds) ==
    LET missing == SelectSeq(entityIds, LAMBDA id : id \notin tagIds) IN
    [i \in DOMAIN missing |->
        ValidationError("ID_MISMATCH", [missingId |-> missing[i]])]

checkTagEntityMatch(anonymizedText, entities) ==
    IdMismatchErrors(InsertionOrder(IdsOf(entities), Len(entities)),
                     Range(IdsOf(tagsOfText(anonymizedText))))

checkPIIMapCompleteness(entities, piiMapKeys) ==
    LET keySet == Range(piiMapKeys)
        absent == SelectSeq(entities,
                      LAMBDA e : createPIIMapKey(e.type, e.id) \notin keySet)
    IN  [i \in DOMAIN absent |->
            ValidationError("MISSING_IN_MAP",
                [entityId |-> absent[i].id, entityType |-> absent[i].type,
                 expectedKey |-> createPIIMapKey(absent[i].type, absent[i].id)])]

(***************************************************************************)
(* Regular expressions that need backtracking: a pattern is a list of      *)
(* alternatives tried in order, an alternative a sequence of literals and  *)
(* of character classes repeated min to max times (max = Unbounded for     *)
(* none), matched greedily and given back one character at a time.         *)
(***************************************************************************)
Unbounded == -1

Rep(set, min, max) == [k |-> "rep", set |-> set, min |-> min, max |-> max]

\* number of characters of `set` from pos on, at most max
RECURSIVE RunLength(_, _, _, _)
RunLength(text, pos, set, max) ==
    IF max # 0 /\ pos < Len(text) /\ text[pos + 1] \in set
    THEN 1 + RunLength(text, pos + 1, set, IF max = Unbounded THEN max ELSE max - 1)
    ELSE 0

\* end of the match of items k.. at pos, -1 without one
RECURSIVE BacktrackFrom(_, _, _, _)
RECURSIVE GiveBack(_, _, _, _, _)
BacktrackFrom(text, pos, items, k) ==
    IF k > Len(items) THEN pos
    ELSE IF items[k].k = "lit"
    THEN IF LitMatches(text, pos, items[k].s, FALSE)
         THEN BacktrackFrom(text, pos + Len(items[k].s), items, k + 1)
         ELSE -1
    ELSE GiveBack(text, pos, items, k,
                  RunLength(text, pos, items[k].set, items[k].max))

\* the class of item k taken n times, then n - 1 times, ... down to min
GiveBack(text, pos, items, k, n) ==
    IF n < items[k].min THEN -1
    ELSE LET end == BacktrackFrom(text, pos + n, items, k + 1) IN
         IF end # -1 THEN end ELSE GiveBack(text, pos, items, k, n - 1)

\* the first alternative that matches at pos decides the match
RECURSIVE FirstAlternative(_, _, _, _)
FirstAlternative(text, pos, alternatives, a) ==
    IF a > Len(alternatives) THEN -1
    ELSE LET end == BacktrackFrom(text, pos, alternatives[a], 1) IN
         IF end # -1 THEN end ELSE FirstAlternative(text, pos, alternatives, a + 1)

\* the matches of a pattern with flag g, as the loop over exec finds them
\* (no pattern here matches the empty string)
RECURSIVE ExecAllAlternatives(_, _, _)
ExecAllAlternatives(text, alternatives, lastIndex) ==
    LET starts == {i \in lastIndex..(Len(text) - 1) :
                      FirstAlternative(text, i, alternatives, 1) # -1}
    IN  IF starts = {} THEN <<>>
        ELSE LET i == CHOOSE x \in starts : \A y \in starts : x <= y
                 end == FirstAlternative(text, i, alternatives, 1)
             IN  <<[index |-> i, matched |-> Slice(text, i, end)]>>
                 \o ExecAllAlternatives(text, alternatives, end)

\* String.prototype.replace with a global pattern and a fixed replacement
RECURSIVE ReplaceMatches(_, _, _, _, _)
ReplaceMatches(text, found, n, cursor, replacement) ==
    IF n > Len(found) THEN SliceFrom(text, cursor)
    ELSE Slice(text, cursor, found[n].index) \o replacement
         \o ReplaceMatches(text, found, n + 1,
                           found[n].index + Len(found[n].matched), replacement)

(***************************************************************************)
(* pipeline/validator.ts: the leak scan and validateOutput                 *)
(***************************************************************************)
Letters == Range(LowerLetters) \cup Range(UpperLetters)

\* the patterns of LEAK_SCAN_PATTERNS, in the order of the list
EmailLeakPattern ==
    <<<<Rep(Letters \cup DigitChars \cup {".", "_", "%", "+", "-"}, 1, Unbounded),
        Lit(<<"@">>),
        Rep(Letters \cup DigitChars \cup {".", "-"}, 1, Unbounded),
        Lit(<<".">>),
        Rep(Letters, 2, Unbounded)>>>>

PhoneLeakPattern ==
    <<<<Lit(<<"+">>), Rep(DigitChars \ {"0"}, 1, 1), Rep(DigitChars, 7, 14)>>,
      <<Lit(<<"0", "0">>), Rep(DigitChars \ {"0"}, 1, 1), Rep(DigitChars, 7, 14)>>,
      <<Lit(<<"0">>), Rep(DigitChars \ {"0"}, 1, 1), Rep(DigitChars, 6, 11)>>>>

IbanLeakPattern ==
    <<<<Rep(Range(UpperLetters), 2, 2), Rep(DigitChars, 2, 2),
        Rep(Range(UpperLetters) \cup DigitChars, 11, 30)>>>>

CreditCardLeakPattern ==
    <<<<Rep(DigitChars, 4, 4), Rep(WhitespaceChars \cup {"-"}, 0, 1),
        Rep(DigitChars, 4, 4), Rep(WhitespaceChars \cup {"-"}, 0, 1),
        Rep(DigitChars, 4, 4), Rep(WhitespaceChars \cup {"-"}, 0, 1),
        Rep(DigitChars, 4, 4)>>>>

IpAddressLeakPattern ==
    <<<<Rep(DigitChars, 1, 3), Lit(<<".">>), Rep(DigitChars, 1, 3), Lit(<<".">>),
        Rep(DigitChars, 1, 3), Lit(<<".">>), Rep(DigitChars, 1, 3)>>>>

\* line 305 compiles each pattern from its source with flag g alone
LEAK_SCAN_PATTERNS ==
    <<[type |-> EMAIL, pattern |-> EmailLeakPattern, name |-> "Email"],
      [type |-> PHONE, pattern |-> PhoneLeakPattern, name |-> "Phone"],
      [type |-> IBAN, pattern |-> IbanLeakPattern, name |-> "IBAN"],
      [type |-> CREDIT_CARD, pattern |-> CreditCardLeakPattern, name |-> "Credit Card"],
      [type |-> IP_ADDRESS, pattern |-> IpAddressLeakPattern, name |-> "IP Address"]>>

\* line 297: /<PII[^>]*\/>/g
selfClosedTagPattern ==
    <<<<Lit(<<"<", "P", "I", "I">>), Rep(AllChars \ {">"}, 0, Unbounded),
        Lit(<<"/", ">">>)>>>>

\* ' '.repeat(20)
TagBlank == [i \in 1..20 |-> " "]

\* String.prototype.lastIndexOf(c, fromIndex) and indexOf(c, fromIndex)
lastIndexOf(text, c, fromIndex) ==
    LET at == {i \in 0..Min(fromIndex, Len(text) - 1) : text[i + 1] = c}
    IN  IF at = {} THEN -1 ELSE CHOOSE i \in at : \A j \in at : j <= i

indexOf(text, c, fromIndex) ==
    LET at == {i \in Max(fromIndex, 0)..(Len(text) - 1) : text[i + 1] = c}
    IN  IF at = {} THEN -1 ELSE CHOOSE i \in at : \A j \in at : i <= j

isPositionInsideTag(text, position) ==
    LET before == lastIndexOf(text, "<", position) IN
    IF before = -1 THEN FALSE
    ELSE LET after == indexOf(text, ">", before) IN
         IF after = -1 THEN FALSE
         ELSE position > before /\ position < after

\* lines 314-319
LeakScanMatches(kept, entry) ==
    [i \in DOMAIN kept |->
        [type |-> entry.type, text |-> kept[i].matched,
         position |-> kept[i].index, pattern |-> entry.name]]

\* the matches of one pattern of the list
LeaksOfPattern(anonymizedText, textWithoutTags, entry) ==
    LeakScanMatches(
        SelectSeq(ExecAllAlternatives(textWithoutTags, entry.pattern, 0),
                  LAMBDA m : ~isPositionInsideTag(anonymizedText, m.index)),
        entry)

\* the loop over the first n patterns
RECURSIVE LeakScanLoop(_, _, _, _)
LeakScanLoop(anonymizedText, textWithoutTags, policy, n) ==
    IF n = 0 THEN <<>>
    ELSE LeakScanLoop(anonymizedText, textWithoutTags, policy, n - 1)
         \o (IF LEAK_SCAN_PATTERNS[n].type \notin policy.enabledTypes THEN <<>>
             ELSE LeaksOfPattern(anonymizedText, textWithoutTags, LEAK_SCAN_PATTERNS[n]))

performLeakScan(anonymizedText, policy) ==
    [matches |->
        LeakScanLoop(anonymizedText,
                     ReplaceMatches(anonymizedText,
                         ExecAllAlternatives(anonymizedText, selfClosedTagPattern, 0),
                         1, 0, TagBlank),
                     policy, Len(LEAK_SCAN_PATTERNS))]

\* lines 131-140: what the leak scan adds to the outcome
LeaksFound(potentialLeaks) ==
    [leakScanPassed |-> Len(potentialLeaks) = 0,
     potentialLeaks |-> potentialLeaks,
     errors |-> IF Len(potentialLeaks) = 0 THEN <<>>
                ELSE <<ValidationError("POTENTIAL_PII_LEAK",
                                       [leaks |-> potentialLeaks])>>]

\* lines 129-141: the leak scan of validateOutput
LeakScanOutcome(anonymizedText, policy) ==
    IF policy.enableLeakScan
    THEN LeaksFound(performLeakScan(anonymizedText, policy).matches)
    ELSE [leakScanPassed |-> "undefined", potentialLeaks |-> "undefined",
          errors |-> <<>>]

\* lines 143-148
ValidationResult(checkErrors, leak) ==
    [valid |-> Len(checkErrors \o leak.errors) = 0,
     errors |-> checkErrors \o leak.errors,
     leakScanPassed |-> leak.leakScanPassed, potentialLeaks |-> leak.potentialLeaks]

\* a plausible slip: the checks stop at the first one that finds errors
validateOutput_shortCircuit(anonymizedText, entities, piiMapKeys, policy) ==
    LET overlapErrors == checkOverlappingEntities(entities)
        idErrors == checkUniqueIds(entities)
        tagErrors == checkTags(anonymizedText)
        countErrors == checkTagEntityMatch(anonymizedText, entities)
        mapErrors == checkPIIMapCompleteness(entities, piiMapKeys)
        leak == LeakScanOutcome(anonymizedText, policy)
        first == IF overlapErrors # <<>> THEN overlapErrors
                 ELSE IF idErrors # <<>> THEN idErrors
                 ELSE IF tagErrors # <<>> THEN tagErrors
                 ELSE IF countErrors # <<>> THEN countErrors
                 ELSE mapErrors
    IN  ValidationResult(first, leak)

validateOutput(anonymizedText, entities, piiMapKeys, policy) ==
    LET overlapErrors == checkOverlappingEntities(entities)
        idErrors == checkUniqueIds(entities)
        tagErrors == checkTags(anonymizedText)
        countErrors == checkTagEntityMatch(anonymizedText, entities)
        mapErrors == checkPIIMapCompleteness(entities, piiMapKeys)
    IN  ValidationResult(overlapErrors \o idErrors \o tagErrors \o countErrors
                         \o mapErrors,
                         LeakScanOutcome(anonymizedText, policy))

(***************************************************************************)
(* validateOutput run on a text written from pieces, a list of entities,   *)
(* the keys of a map and a policy.                                         *)
(***************************************************************************)
MaxEntities == 3     \* entities per list
MaxValPieces == 2    \* pieces per text

IpText == <<"1", ".", "1", ".", "1", ".", "1">>

\* the pieces of the texts: a canonical tag, a tag as a translation leaves
\* it, a tag that is not closed, a closed tag of an unknown category, an IP
\* address between spaces, a space
ValidatorPieces ==
    {[kind |-> "tag", id |-> 1, text |-> generateTag(EMAIL, 1)],
     [kind |-> "mangled", id |-> 2,
      text |-> WriteTag([type |-> IP_ADDRESS, id |-> 2, form |-> "translated"])],
     [kind |-> "unclosed", id |-> 3,
      text |-> WriteTag([type |-> EMAIL, id |-> 3, form |-> "bare_close"])],
     [kind |-> "unknown", id |-> 3,
      text |-> WriteTag([type |-> <<"B", "O", "G", "U", "S">>, id |-> 3,
                         form |-> "canonical"])],
     [kind |-> "leak", id |-> 0, text |-> <<" ">> \o IpText \o <<" ">>],
     [kind |-> "plain", id |-> 0, text |-> <<"x">>]}

PieceTexts(pieces) == [i \in DOMAIN pieces |-> pieces[i].text]

\* entities with ID 1 are e-mail addresses, entities with ID 2 IP addresses
ValidatorEntities ==
    {[type |-> (IF id = 1 THEN EMAIL ELSE IP_ADDRESS), id |-> id,
      start |-> start, end |-> start + 2, confidence |-> 90, source |-> "REGEX",
      original |-> original] :
        id \in 1..2, start \in 0..2, original \in {<<"a">>, <<"b">>}}

Entity(id, start, original) ==
    CHOOSE e \in ValidatorEntities :
        e.id = id /\ e.start = start /\ e.original = original

ValidatorKeyLists ==
    {<<createPIIMapKey(EMAIL, 1), createPIIMapKey(IP_ADDRESS, 2)>>,
     <<createPIIMapKey(EMAIL, 1)>>}

ValidatorPolicies ==
    {[enableLeakScan |-> TRUE, enabledTypes |-> PIIType],
     [enableLeakScan |-> TRUE, enabledTypes |-> {EMAIL}],
     [enableLeakScan |-> FALSE, enabledTypes |-> PIIType]}

\* many entity lists, few texts
InitValidatorEntities ==
    /\ pc = "validate_input"
    /\ valEntities \in SeqsUpTo(ValidatorEntities, MaxEntities)
    /\ valDoc = <<CHOOSE p \in ValidatorPieces : p.kind = "tag">>
    /\ valText = Flatten(PieceTexts(valDoc))
    /\ valKeys \in ValidatorKeyLists
    /\ valPolicy = [enableLeakScan |-> TRUE, enabledTypes |-> PIIType]
    /\ validation = Nothing
    /\ ResolverIdle
    /\ TaggerIdle
    /\ RehydratorIdle
    /\ VaultIdle
    /\ RegistryIdle
    /\ ChecksumsIdle
    /\ Ipv4Idle
    /\ MergerIdle
    /\ DecoderIdle
    /\ OverlapsIdle
    /\ LineEndingIdle
    /\ TritonClientIdle
    /\ TritonModelIdle

\* many texts, few entity lists
InitValidatorText ==
    /\ pc = "validate_input"
    /\ valEntities \in {<<>>,
                        <<Entity(1, 0, <<"a">>)>>,
                        <<Entity(2, 2, <<"b">>), Entity(1, 0, <<"a">>)>>,
                        <<Entity(1, 0, <<"a">>), Entity(2, 1, <<"b">>),
                          Entity(2, 2, <<"a">>)>>}
    /\ valDoc \in SeqsUpTo(ValidatorPieces, MaxValPieces)
    /\ valText = Flatten(PieceTexts(valDoc))
    /\ valKeys \in ValidatorKeyLists
    /\ valPolicy \in ValidatorPolicies
    /\ validation = Nothing
    /\ ResolverIdle
    /\ TaggerIdle
    /\ RehydratorIdle
    /\ VaultIdle
    /\ RegistryIdle
    /\ ChecksumsIdle
    /\ Ipv4Idle
    /\ MergerIdle
    /\ DecoderIdle
    /\ OverlapsIdle
    /\ LineEndingIdle
    /\ TritonClientIdle
    /\ TritonModelIdle

Validate ==
    /\ pc = "validate_input"
    /\ validation' = validateOutput(valText, valEntities, valKeys, valPolicy)
    /\ pc' = "validated"
    /\ UNCHANGED <<valDoc, valText, valEntities, valKeys, valPolicy>>
    /\ UNCHANGED outsideValidator

NextValidator == Validate

SpecValidatorEntities == InitValidatorEntities /\ [][NextValidator]_vars

SpecValidatorText == InitValidatorText /\ [][NextValidator]_vars

(***************************************************************************)
(* Claims about the validator.                                             *)
(***************************************************************************)
Validated == pc = "validated"

ErrorsWithCode(code) == SelectSeq(validation.errors, LAMBDA e : e.code = code)

ErrorCodes == {validation.errors[i].code : i \in DOMAIN validation.errors}

\* two half-open ranges overlap when they share a position
RangesOverlap(a, b) == (a.start .. (a.end - 1)) \cap (b.start .. (b.end - 1)) # {}

OverlappingPairs ==
    {pair \in (DOMAIN valEntities) \X (DOMAIN valEntities) :
        pair[1] < pair[2] /\ RangesOverlap(valEntities[pair[1]], valEntities[pair[2]])}

\* two entities share an ID and differ in their original text
DuplicateIdPairs ==
    {pair \in (DOMAIN valEntities) \X (DOMAIN valEntities) :
        /\ pair[1] < pair[2]
        /\ valEntities[pair[1]].id = valEntities[pair[2]].id
        /\ valEntities[pair[1]].original # valEntities[pair[2]].original}

\* offset of piece i in the text
RECURSIVE ValPieceOffset(_)
ValPieceOffset(i) ==
    IF i = 1 THEN 0 ELSE ValPieceOffset(i - 1) + Len(valDoc[i - 1].text)

PiecesOfKind(kinds) == {i \in DOMAIN valDoc : valDoc[i].kind \in kinds}

\* the IDs the tags of the text carry
TagIdsInText == {valDoc[i].id : i \in PiecesOfKind({"tag", "mangled"})}

EntityIdsWithoutTag ==
    {valEntities[i].id : i \in DOMAIN valEntities} \ TagIdsInText

EntitiesWithoutKey ==
    {i \in DOMAIN valEntities :
        createPIIMapKey(valEntities[i].type, valEntities[i].id) \notin Range(valKeys)}

\* C12: the checks do not short-circuit: whatever else is wrong with the
\* input, every check that finds something reports it in the same outcome
\* (overlaps, duplicate IDs, tags that are not closed, entity IDs without a
\* tag, entities without a key in the map), and the outcome is invalid.
C12_AllChecksReported ==
    Validated =>
        /\ OverlappingPairs # {} => "OVERLAPPING_ENTITIES" \in ErrorCodes
        /\ DuplicateIdPairs # {} => "DUPLICATE_IDS" \in ErrorCodes
        /\ PiecesOfKind({"unclosed"}) # {} => "MALFORMED_TAG" \in ErrorCodes
        /\ EntityIdsWithoutTag # {} => "ID_MISMATCH" \in ErrorCodes
        /\ EntitiesWithoutKey # {} => "MISSING_IN_MAP" \in ErrorCodes
        /\ Len(validation.errors) =
               Len(ErrorsWithCode("OVERLAPPING_ENTITIES"))
               + Len(ErrorsWithCode("DUPLICATE_IDS"))
               + Len(ErrorsWithCode("MALFORMED_TAG"))
               + Len(ErrorsWithCode("ID_MISMATCH"))
               + Len(ErrorsWithCode("MISSING_IN_MAP"))
               + Len(ErrorsWithCode("POTENTIAL_PII_LEAK"))
        /\ validation.valid <=> validation.errors = <<>>

\* an input that violates all five checks and has a leak gets all six kinds
\* of error in one outcome
C12_Witness ==
    /\ Validated
    /\ OverlappingPairs # {} /\ DuplicateIdPairs # {}
    /\ PiecesOfKind({"unclosed"}) # {}
    /\ EntityIdsWithoutTag # {} /\ EntitiesWithoutKey # {}
    /\ ErrorCodes = {"OVERLAPPING_ENTITIES", "DUPLICATE_IDS", "MALFORMED_TAG",
                     "ID_MISMATCH", "MISSING_IN_MAP", "POTENTIAL_PII_LEAK"}

\* what an OVERLAPPING_ENTITIES error says of an entity
Described(e) == [id |-> e.id, type |-> e.type, start |-> e.start, end |-> e.end]

\* C13: for any entity list in any order, there are as many
\* OVERLAPPING_ENTITIES errors as unordered pairs of entities whose ranges
\* overlap, every such pair is described by one, and there is none exactly
\* when no pair overlaps.
C13_EveryOverlappingPairReported ==
    Validated =>
        /\ Len(ErrorsWithCode("OVERLAPPING_ENTITIES")) = Cardinality(OverlappingPairs)
        /\ \A pair \in OverlappingPairs :
               \E k \in DOMAIN validation.errors :
                   /\ validation.errors[k].code = "OVERLAPPING_ENTITIES"
                   /\ validation.errors[k].details.entity1
                          = Described(valEntities[pair[1]])
                   /\ validation.errors[k].details.entity2
                          = Described(valEntities[pair[2]])
        /\ ErrorsWithCode("OVERLAPPING_ENTITIES") = <<>> <=> OverlappingPairs = {}

\* three entities given out of start order, each overlapping the two others
C13_Witness ==
    /\ Validated
    /\ Len(valEntities) = 3
    /\ valEntities[1].start > valEntities[2].start
    /\ Cardinality(OverlappingPairs) = 3
    /\ Len(ErrorsWithCode("OVERLAPPING_ENTITIES")) = 3

\* C14: a DUPLICATE_IDS error is reported if and only if two entities share
\* an ID and differ in their original text; entities sharing an ID with the
\* same original text, however many, yield none.
C14_DuplicateIds ==
    Validated =>
        ("DUPLICATE_IDS" \in ErrorCodes <=> DuplicateIdPairs # {})

\* three entities under one ID: the first two with the same text, which is no
\* error, the third with another text, which is reported
C14_Witness ==
    /\ Validated
    /\ Len(valEntities) = 3
    /\ \A i \in DOMAIN valEntities : valEntities[i].id = valEntities[1].id
    /\ valEntities[1].original = valEntities[2].original
    /\ valEntities[3].original # valEntities[1].original
    /\ Len(ErrorsWithCode("DUPLICATE_IDS")) = 1

MalformedTagPositions ==
    {validation.errors[k].details.position :
        k \in {j \in DOMAIN validation.errors :
                  validation.errors[j].code = "MALFORMED_TAG"}}

\* C15: every text that begins with '<PII' and is not a valid, closed tag
\* (known category, numeric id, both attributes, self-closed) yields a
\* MALFORMED_TAG error, and a valid canonical tag yields none.
C15_MalformedTagsReported ==
    Validated =>
        /\ \A i \in PiecesOfKind({"unclosed", "unknown"}) :
               ValPieceOffset(i) \in MalformedTagPositions
        /\ \A i \in PiecesOfKind({"tag"}) :
               ValPieceOffset(i) \notin MalformedTagPositions

\* the text <PII type="BOGUS" id="3"/> alone
C15_FailingInput ==
    /\ Validated
    /\ Len(valDoc) = 1 /\ valDoc[1].kind = "unknown"
    /\ ErrorsWithCode("MALFORMED_TAG") = <<>>

\* what does hold: a tag-like text is reported exactly when it does not end
\* with "/>"
C15_UnclosedTagsReported ==
    Validated =>
        MalformedTagPositions = {ValPieceOffset(i) : i \in PiecesOfKind({"unclosed"})}

MissingIdsReported ==
    {validation.errors[k].details.missingId :
        k \in {j \in DOMAIN validation.errors :
                  validation.errors[j].code = "ID_MISMATCH"}}

LeakScanOfIpAddresses ==
    Validated /\ valPolicy.enableLeakScan /\ IP_ADDRESS \in valPolicy.enabledTypes

IpLeaksReported ==
    SelectSeq(validation.potentialLeaks,
              LAMBDA m : m.type = IP_ADDRESS /\ m.text = IpText)

\* C17: with the leak scan enabled, every PII-shaped text outside the tags
\* is reported as a potential leak and makes leakScanPassed false, wherever
\* it stands relative to the tags, and nothing inside a tag is reported.
C17_LeaksOutsideTagsReported ==
    LeakScanOfIpAddresses =>
        /\ Len(IpLeaksReported) = Cardinality(PiecesOfKind({"leak"}))
        /\ Len(validation.potentialLeaks) = Cardinality(PiecesOfKind({"leak"}))
        /\ validation.leakScanPassed <=> PiecesOfKind({"leak"}) = {}

\* the text <PII type="EMAIL" id="1"/> 1.1.1.1 passes the leak scan
C17_FailingInput ==
    /\ LeakScanOfIpAddresses
    /\ Len(valDoc) = 2 /\ valDoc[1].kind = "tag" /\ valDoc[2].kind = "leak"
    /\ validation.leakScanPassed = TRUE
    /\ validation.potentialLeaks = <<>>

\* what does hold: an address that no self-closed tag precedes is reported
C17_LeaksBeforeTagsReported ==
    (LeakScanOfIpAddresses
        /\ \A i \in PiecesOfKind({"leak"}), j \in PiecesOfKind({"tag", "unknown"}) : i < j)
    => /\ Len(IpLeaksReported) = Cardinality(PiecesOfKind({"leak"}))
       /\ Len(validation.potentialLeaks) = Cardinality(PiecesOfKind({"leak"}))
       /\ validation.leakScanPassed <=> PiecesOfKind({"leak"}) = {}

(***************************************************************************)
(* The recognizer registry (recognizers/iban.ts, RecognizerRegistry) and   *)
(* the custom ID recognizers (recognizers/custom-id.ts).                   *)
(*                                                                         *)
(* A confidence is a number of hundredths.  The text given to findAll is   *)
(* written as a list of words, each one a blank followed by an identifier  *)
(* that exactly one pattern of the model matches; a pattern is modelled by *)
(* the kind of word it matches.                                            *)
(***************************************************************************)
MaxRegistered == 2   \* number of calls of register
MaxWords == 2        \* number of words of the text given to findAll

\* policy.confidenceThresholds.get(type) ?? 0.5
DefaultThreshold == 50

RegistryWords ==
    {[kind |-> "ip", text |-> <<" ", "1", ".", "1", ".", "1", ".", "1">>],
     [kind |-> "case", text |-> <<" ", "C", "A", "S", "E", "-", "1", "2", "3", "4">>],
     [kind |-> "customer",
      text |-> <<" ", "C", "U", "S", "T", "-", "1", "2", "3", "4">>],
     [kind |-> "plain", text |-> <<" ", "x">>]}

\* the SpanMatch of word i of the words: the word without its leading blank
WordMatch(words, i, type, confidence) ==
    [type |-> type,
     start |-> PieceOffset(PieceTexts(words), i - 1) + 1,
     end |-> PieceOffset(PieceTexts(words), i),
     confidence |-> confidence,
     source |-> "REGEX",
     text |-> Tail(words[i].text)]

\* text.matchAll(globalPattern) of one pattern, each match pushed with the
\* type of the pattern
RECURSIVE PatternMatches(_, _, _)
PatternMatches(words, patternConfig, n) ==
    IF n = 0 THEN <<>>
    ELSE PatternMatches(words, patternConfig, n - 1)
         \o (IF words[n].kind = patternConfig.word
             THEN <<WordMatch(words, n, patternConfig.type, patternConfig.confidence)>>
             ELSE <<>>)

\* recognizer.find(text): the matches of each pattern in turn
RECURSIVE find(_, _, _)
find(recognizer, words, k) ==
    IF k = 0 THEN <<>>
    ELSE find(recognizer, words, k - 1)
         \o PatternMatches(words, recognizer.patterns[k], Len(words))

\* the type under which the recognizer is registered is CASE_ID whatever the
\* types of its patterns
createCustomIdRecognizer(patterns) ==
    [type |-> CASE_ID, name |-> "Custom ID", patterns |-> patterns]

createCaseIdRecognizer ==
    createCustomIdRecognizer(
        <<[word |-> "case", type |-> CASE_ID, confidence |-> 90]>>)

createCustomerIdRecognizer ==
    createCustomIdRecognizer(
        <<[word |-> "customer", type |-> CUSTOMER_ID, confidence |-> 90]>>)

ipAddressRecognizer ==
    [type |-> IP_ADDRESS, name |-> "IP Address",
     patterns |-> <<[word |-> "ip", type |-> IP_ADDRESS, confidence |-> 90]>>]

Recognizers == {ipAddressRecognizer, createCaseIdRecognizer, createCustomerIdRecognizer}

\* the categories a recognizer emits
EmittedTypes(recognizer) ==
    {recognizer.patterns[k].type : k \in DOMAIN recognizer.patterns}

\* position of the entry of the type in the map, 0 without one
EntryOf(map, type) ==
    IF \E i \in DOMAIN map : map[i].type = type
    THEN CHOOSE i \in DOMAIN map : map[i].type = type
    ELSE 0

\* register(recognizer): append to the list kept under recognizer.type
register(map, recognizer) ==
    IF EntryOf(map, recognizer.type) = 0
    THEN Append(map, [type |-> recognizer.type, recognizers |-> <<recognizer>>])
    ELSE [map EXCEPT ![EntryOf(map, recognizer.type)].recognizers =
              Append(@, recognizer)]

Threshold(policy, type) ==
    IF type \in DOMAIN policy.confidenceThresholds
    THEN policy.confidenceThresholds[type]
    ELSE DefaultThreshold

\* the registration type is skipped unless the policy enables it and enables
\* it for pattern detection
TypeRuns(policy, type) ==
    type \in policy.enabledTypes /\ type \in policy.regexEnabledTypes

\* match.confidence >= threshold, the threshold of the registration type
KeepsMatch(policy, type, match) == match.confidence >= Threshold(policy, type)

\* the inner loops of findAll over the recognizers of one type
RECURSIVE MatchesOfEntry(_, _, _, _)
MatchesOfEntry(entry, words, policy, n) ==
    IF n = 0 THEN <<>>
    ELSE MatchesOfEntry(entry, words, policy, n - 1)
         \o SelectSeq(find(entry.recognizers[n], words,
                           Len(entry.recognizers[n].patterns)),
                      LAMBDA match : KeepsMatch(policy, entry.type, match))

\* findAll(text, policy): the outer loop over the entries of the map
RECURSIVE findAll(_, _, _, _)
findAll(map, words, policy, n) ==
    IF n = 0 THEN <<>>
    ELSE findAll(map, words, policy, n - 1)
         \o (IF TypeRuns(policy, map[n].type)
             THEN MatchesOfEntry(map[n], words, policy, Len(map[n].recognizers))
             ELSE <<>>)

\* the recognizers whose find findAll calls
RECURSIVE RecognizersRun(_, _, _)
RecognizersRun(map, policy, n) ==
    IF n = 0 THEN <<>>
    ELSE RecognizersRun(map, policy, n - 1)
         \o (IF TypeRuns(policy, map[n].type) THEN map[n].recognizers ELSE <<>>)

RegistryTypes == {IP_ADDRESS, CASE_ID, CUSTOMER_ID}

RegistryThresholds ==
    {[t \in RegistryTypes |-> DefaultThreshold],
     [t \in {CUSTOMER_ID} |-> 95],
     [t \in {CASE_ID} |-> 95]}

RegistryPolicies ==
    [enabledTypes : {RegistryTypes, RegistryTypes \ {CUSTOMER_ID},
                     RegistryTypes \ {CASE_ID}},
     regexEnabledTypes : {RegistryTypes, {CUSTOMER_ID}, {IP_ADDRESS, CASE_ID}},
     confidenceThresholds : RegistryThresholds]

\* new RecognizerRegistry(): an empty map
InitRegistry ==
    /\ pc = "registry_open"
    /\ recognizers = <<>>
    /\ regDoc \in SeqsUpTo(RegistryWords, MaxWords)
    /\ regText = Flatten(PieceTexts(regDoc))
    /\ regPolicy \in RegistryPolicies
    /\ regRan = <<>>
    /\ regMatches = <<>>
    /\ ResolverIdle
    /\ TaggerIdle
    /\ RehydratorIdle
    /\ VaultIdle
    /\ ValidatorIdle
    /\ ChecksumsIdle
    /\ Ipv4Idle
    /\ MergerIdle
    /\ DecoderIdle
    /\ OverlapsIdle
    /\ LineEndingIdle
    /\ TritonClientIdle
    /\ TritonModelIdle

RegisteredCount(map) == Len(Flatten([i \in DOMAIN map |-> map[i].recognizers]))

Register ==
    /\ pc = "registry_open"
    /\ RegisteredCount(recognizers) < MaxRegistered
    /\ \E recognizer \in Recognizers :
           recognizers' = register(recognizers, recognizer)
    /\ UNCHANGED <<pc, regDoc, regText, regPolicy, regRan, regMatches>>
    /\ UNCHANGED outsideRegistry

FindAll ==
    /\ pc = "registry_open"
    /\ regMatches' = findAll(recognizers, regDoc, regPolicy, Len(recognizers))
    /\ regRan' = RecognizersRun(recognizers, regPolicy, Len(recognizers))
    /\ pc' = "found"
    /\ UNCHANGED <<recognizers, regDoc, regText, regPolicy>>
    /\ UNCHANGED outsideRegistry

NextRegistry == Register \/ FindAll

SpecRegistry == InitRegistry /\ [][NextRegistry]_vars

(***************************************************************************)
(* Claims about the registry.                                              *)
(***************************************************************************)
Found == pc = "found"

Registered == Range(Flatten([i \in DOMAIN recognizers |-> recognizers[i].recognizers]))

\* the candidate's own category passes the policy
CandidatePasses(match) ==
    /\ match.type \in regPolicy.enabledTypes
    /\ match.type \in regPolicy.regexEnabledTypes
    /\ match.confidence >= Threshold(regPolicy, match.type)

\* C18: every candidate findAll returns has a category the policy enables
\* and enables for pattern detection, and a confidence at or above the
\* threshold of that category; and every registered recognizer that emits a
\* category enabled for pattern detection has been run.
C18_RegistryFiltering ==
    Found =>
        /\ \A i \in DOMAIN regMatches : CandidatePasses(regMatches[i])
        /\ \A recognizer \in Registered :
               EmittedTypes(recognizer) \cap regPolicy.regexEnabledTypes # {}
                   => recognizer \in Range(regRan)

\* the customer ID recognizer alone, customer IDs disabled in the policy, a
\* customer ID in the text: the customer ID is returned
C18_FailingInput ==
    /\ Found
    /\ Registered = {createCustomerIdRecognizer}
    /\ CUSTOMER_ID \notin regPolicy.enabledTypes
    /\ \E i \in DOMAIN regMatches : regMatches[i].type = CUSTOMER_ID

\* for the recognizers that emit the category they are registered under, the
\* candidates returned pass the policy
C18_SameTypeRecognizersFiltered ==
    Found /\ createCustomerIdRecognizer \notin Registered
        => \A i \in DOMAIN regMatches : CandidatePasses(regMatches[i])

(***************************************************************************)
(* IBAN checksum validation (utils/offsets.ts, validateIBAN).              *)
(***************************************************************************)
MaxBlocks == 2       \* number of blocks of the account part of an IBAN given

\* IBAN_LENGTHS
IBAN_LENGTHS ==
    (<<"A", "D">> :> 24) @@ (<<"A", "T">> :> 20) @@ (<<"B", "E">> :> 16)
    @@ (<<"C", "H">> :> 21) @@ (<<"C", "Z">> :> 24) @@ (<<"D", "E">> :> 22)
    @@ (<<"D", "K">> :> 18) @@ (<<"E", "S">> :> 24) @@ (<<"F", "I">> :> 18)
    @@ (<<"F", "R">> :> 27) @@ (<<"G", "B">> :> 22) @@ (<<"G", "R">> :> 27)
    @@ (<<"H", "U">> :> 28) @@ (<<"I", "E">> :> 22) @@ (<<"I", "T">> :> 27)
    @@ (<<"L", "I">> :> 21) @@ (<<"L", "U">> :> 20) @@ (<<"N", "L">> :> 18)
    @@ (<<"N", "O">> :> 15) @@ (<<"P", "L">> :> 28) @@ (<<"P", "T">> :> 25)
    @@ (<<"S", "E">> :> 24) @@ (<<"S", "K">> :> 24)

\* char.charCodeAt(0) of an upper-case letter: 'A' is 65
charCodeAt(c) == 64 + (CHOOSE i \in DOMAIN UpperLetters : UpperLetters[i] = c)

\* the mutant counts the letters from A = 1
charToNumber_fromOne(char) ==
    IF UpperChar(char) \in Range(UpperLetters)
    THEN NumberToString(charCodeAt(UpperChar(char)) - 64)
    ELSE <<char>>

\* charToNumber: A-Z become the decimal digits of 10..35, a digit stays
charToNumber(char) ==
    IF UpperChar(char) \in Range(UpperLetters)
    THEN NumberToString(charCodeAt(UpperChar(char)) - 55)
    ELSE <<char>>

\* iban.replace(/\s/g, '').toUpperCase()
cleanIban(iban) == toUpperCase(SelectSeq(iban, LAMBDA c : c \notin WhitespaceChars))

RECURSIVE ToNumeric(_, _)
ToNumeric(rearranged, n) ==
    IF n = 0 THEN <<>>
    ELSE ToNumeric(rearranged, n - 1) \o charToNumber(rearranged[n])

\* cleaned.slice(4) + cleaned.slice(0, 4), letters converted
Rearranged(cleaned) == SliceFrom(cleaned, 4) \o Slice(cleaned, 0, 4)

rearrangeForChecksum(iban) ==
    ToNumeric(Rearranged(cleanIban(iban)), Len(cleanIban(iban)))

\* remainder = (remainder * 10 + parseInt(digit, 10)) % 97 over the first n digits
RECURSIVE mod97Loop(_, _)
mod97Loop(numericString, n) ==
    IF n = 0 THEN 0
    ELSE (mod97Loop(numericString, n - 1) * 10 + DigitValue(numericString[n])) % 97

mod97(numericString) == mod97Loop(numericString, Len(numericString))

\* /^[A-Z]{2}[0-9]{2}[A-Z0-9]+$/.test(cleaned)
BasicFormat(cleaned) ==
    /\ Len(cleaned) >= 5
    /\ \A i \in 1..2 : cleaned[i] \in Range(UpperLetters)
    /\ \A i \in 3..4 : cleaned[i] \in Range(Digits)
    /\ \A i \in 5..Len(cleaned) : cleaned[i] \in Range(UpperLetters) \cup Range(Digits)

\* expectedLength !== undefined && cleaned.length !== expectedLength
WrongCountryLength(cleaned) ==
    /\ Slice(cleaned, 0, 2) \in DOMAIN IBAN_LENGTHS
    /\ Len(cleaned) # IBAN_LENGTHS[Slice(cleaned, 0, 2)]

validateCleaned(cleaned) ==
    IF ~BasicFormat(cleaned) THEN FALSE
    ELSE IF WrongCountryLength(cleaned) THEN FALSE
    ELSE IF Len(cleaned) < 15 \/ Len(cleaned) > 34 THEN FALSE
    ELSE mod97(rearrangeForChecksum(cleaned)) = 1

validateIBAN(iban) == validateCleaned(cleanIban(iban))

\* the IBANs given: a country code, two check characters, and an account part
\* of blocks, written without blanks, or in lower case in groups of four
IbanCountries == {<<"D", "E">>, <<"N", "O">>, <<"X", "X">>}

IbanBlocks ==
    {<<"3", "7", "0", "4", "0", "0", "4", "4", "0">>,
     <<"5", "3", "2", "0", "1", "3", "0", "0", "0">>,
     <<"0", "0", "0", "0", "0", "0", "0", "0", "0">>,
     <<"0", "0">>,
     <<"W", "E">>}

LowerChar(c) ==
    IF c \in Range(UpperLetters)
    THEN LowerLetters[CHOOSE i \in DOMAIN UpperLetters : UpperLetters[i] = c]
    ELSE c

\* a blank after every fourth character, letters in lower case
RECURSIVE Grouped(_)
Grouped(str) ==
    IF Len(str) <= 4 THEN [i \in DOMAIN str |-> LowerChar(str[i])]
    ELSE [i \in 1..4 |-> LowerChar(str[i])] \o <<" ">> \o Grouped(SliceFrom(str, 4))

WriteIban(str, grouped) == IF grouped THEN Grouped(str) ELSE str

InitIban ==
    /\ pc = "iban_input"
    /\ \E country \in IbanCountries, c1 \in Range(Digits), c2 \in Range(Digits),
          blocks \in SeqsUpTo(IbanBlocks, MaxBlocks), grouped \in BOOLEAN :
           ibanInput = WriteIban(country \o <<c1, c2>> \o Flatten(blocks), grouped)
    /\ ibanResult = Nothing
    /\ luhnInput = <<>>
    /\ luhnResult = Nothing
    /\ ResolverIdle
    /\ TaggerIdle
    /\ RehydratorIdle
    /\ VaultIdle
    /\ ValidatorIdle
    /\ RegistryIdle
    /\ Ipv4Idle
    /\ MergerIdle
    /\ DecoderIdle
    /\ OverlapsIdle
    /\ LineEndingIdle
    /\ TritonClientIdle
    /\ TritonModelIdle

ValidateIban ==
    /\ pc = "iban_input"
    /\ ibanResult' = validateIBAN(ibanInput)
    /\ pc' = "iban_validated"
    /\ UNCHANGED <<ibanInput, luhnInput, luhnResult>>
    /\ UNCHANGED outsideChecksums

NextIban == ValidateIban

SpecIban == InitIban /\ [][NextIban]_vars

(***************************************************************************)
(* Claims about validateIBAN.                                              *)
(***************************************************************************)
IbanValidated == pc = "iban_validated"

\* the input without its blanks, in upper case
IbanCleaned == toUpperCase(SelectSeq(ibanInput, LAMBDA c : c # " "))

IbanShape(str) ==
    /\ Len(str) > 4
    /\ str[1] \in Range(UpperLetters) /\ str[2] \in Range(UpperLetters)
    /\ str[3] \in Range(Digits) /\ str[4] \in Range(Digits)
    /\ \A i \in 5..Len(str) : str[i] \in Range(UpperLetters) \cup Range(Digits)

IbanCountryLengthOk(str) ==
    SubSeq(str, 1, 2) \in DOMAIN IBAN_LENGTHS
        => Len(str) = IBAN_LENGTHS[SubSeq(str, 1, 2)]

\* the value of a character: 0-9 for a digit, 10-35 for A-Z
IbanCharValue(c) ==
    IF c \in Range(Digits) THEN CHOOSE v \in 0..9 : Digits[v + 1] = c
    ELSE CHOOSE v \in 10..35 : UpperLetters[v - 9] = c

\* the remainder modulo 97 of the number written by the characters 1..n of
\* the string, the last of them standing at the place of weight `weight`
\* (a power of ten, modulo 97): a letter fills two decimal places
RECURSIVE IbanRemainder(_, _, _)
IbanRemainder(str, n, weight) ==
    IF n = 0 THEN 0
    ELSE (IbanCharValue(str[n]) * weight
          + IbanRemainder(str, n - 1,
                          IF str[n] \in Range(Digits)
                          THEN (weight * 10) % 97
                          ELSE (weight * 100) % 97)) % 97

\* first four characters moved to the end
IbanMoved(str) == SubSeq(str, 5, Len(str)) \o SubSeq(str, 1, 4)

IbanChecksumOk(str) == IbanRemainder(IbanMoved(str), Len(str), 1) = 1

DE89370400440532013000 ==
    <<"D", "E", "8", "9", "3", "7", "0", "4", "0", "0", "4", "4", "0", "5", "3",
      "2", "0", "1", "3", "0", "0", "0">>

DE00000000000000000000 ==
    <<"D", "E", "0", "0", "0", "0", "0", "0", "0", "0", "0", "0", "0", "0", "0",
      "0", "0", "0", "0", "0", "0", "0">>

\* C19 as stated: validateIBAN returns true exactly when the cleaned string
\* has the basic shape, the length registered for its country when the
\* country is known, and remainder 1 modulo 97 after rearranging.
C19_ValidIffShapeLengthChecksum ==
    IbanValidated =>
        (ibanResult <=> /\ IbanShape(IbanCleaned)
                        /\ IbanCountryLengthOk(IbanCleaned)
                        /\ IbanChecksumOk(IbanCleaned))

\* C19: validateIBAN returns true exactly when the cleaned string has the
\* basic shape, the length registered for its country when the country is
\* known, a length of 15 to 34 characters, and remainder 1 modulo 97 after
\* rearranging; DE89370400440532013000 is valid, DE00000000000000000000 is not.
C19_ValidIffShapeLengthsChecksum ==
    IbanValidated =>
        /\ ibanResult <=> /\ IbanShape(IbanCleaned)
                          /\ IbanCountryLengthOk(IbanCleaned)
                          /\ Len(IbanCleaned) \in 15..34
                          /\ IbanChecksumOk(IbanCleaned)
        /\ IbanCleaned = DE89370400440532013000 => ibanResult
        /\ IbanCleaned = DE00000000000000000000 => ~ibanResult

\* the valid German IBAN, written in groups of four in lower case, accepted
C19_Witness ==
    /\ IbanValidated
    /\ ibanInput = Grouped(DE89370400440532013000)
    /\ ibanResult

(***************************************************************************)
(* Luhn checksum validation (utils/luhn.ts, validateLuhn).                 *)
(***************************************************************************)
MaxGroups == 4       \* number of digit groups of a card number given

\* input.replace(/\D/g, '')
digitsOf(input) == SelectSeq(input, LAMBDA c : c \in Range(Digits))

\* the mutant doubles without subtracting 9
LuhnDigit_noSubtract(digit, isEven) == IF isEven THEN digit * 2 ELSE digit

\* the body of the loop: digit *= 2, digit -= 9 when it exceeds 9
LuhnDigit(digit, isEven) ==
    IF isEven
    THEN (IF digit * 2 > 9 THEN digit * 2 - 9 ELSE digit * 2)
    ELSE digit

\* the loop from i = digits.length - 1 down to 0, here at position i (1-based)
RECURSIVE LuhnLoop(_, _, _)
LuhnLoop(digits, i, isEven) ==
    IF i = 0 THEN 0
    ELSE LuhnDigit(DigitValue(digits[i]), isEven) + LuhnLoop(digits, i - 1, ~isEven)

validateDigits(digits) ==
    IF Len(digits) = 0 THEN FALSE
    ELSE LuhnLoop(digits, Len(digits), FALSE) % 10 = 0

validateLuhn(input) == validateDigits(digitsOf(input))

\* the card numbers given: groups of digits joined by a separator
CardGroups ==
    {<<"4", "1", "1", "1">>, <<"1", "1", "1", "1">>, <<"1", "1", "1", "2">>,
     <<"7", "9", "9", "2">>, <<"7", "3", "9", "8">>, <<"7", "1", "3">>}

CardSeparators == {<<>>, <<"-">>, <<" ">>}

RECURSIVE Join(_, _)
Join(groups, separator) ==
    IF Len(groups) = 0 THEN <<>>
    ELSE IF Len(groups) = 1 THEN groups[1]
    ELSE groups[1] \o separator \o Join(Tail(groups), separator)

InitLuhn ==
    /\ pc = "luhn_input"
    /\ \E groups \in SeqsUpTo(CardGroups, MaxGroups), separator \in CardSeparators :
           luhnInput = Join(groups, separator)
    /\ luhnResult = Nothing
    /\ ibanInput = <<>>
    /\ ibanResult = Nothing
    /\ ResolverIdle
    /\ TaggerIdle
    /\ RehydratorIdle
    /\ VaultIdle
    /\ ValidatorIdle
    /\ RegistryIdle
    /\ Ipv4Idle
    /\ MergerIdle
    /\ DecoderIdle
    /\ OverlapsIdle
    /\ LineEndingIdle
    /\ TritonClientIdle
    /\ TritonModelIdle

ValidateLuhn ==
    /\ pc = "luhn_input"
    /\ luhnResult' = validateLuhn(luhnInput)
    /\ pc' = "luhn_validated"
    /\ UNCHANGED <<luhnInput, ibanInput, ibanResult>>
    /\ UNCHANGED outsideChecksums

NextLuhn == ValidateLuhn

SpecLuhn == InitLuhn /\ [][NextLuhn]_vars

(***************************************************************************)
(* Claims about validateLuhn.                                              *)
(***************************************************************************)
LuhnValidated == pc = "luhn_validated"

\* the input without its separators
CardDigits == SelectSeq(luhnInput, LAMBDA c : c \notin {"-", " "})

\* the contribution of the digit at place k counted from the right, k = 1
\* for the last digit: every second one is doubled, less 9 above 9
LuhnContribution(d, k) ==
    IF k % 2 = 1 THEN d
    ELSE IF 2 * d > 9 THEN 2 * d - 9 ELSE 2 * d

RECURSIVE LuhnSum(_, _)
LuhnSum(str, n) ==
    IF n = 0 THEN 0
    ELSE LuhnSum(str, n - 1)
         + LuhnContribution(CHOOSE v \in 0..9 : Digits[v + 1] = str[n],
                            Len(str) - n + 1)

Card4111111111111111 ==
    <<"4", "1", "1", "1", "1", "1", "1", "1", "1", "1", "1", "1", "1", "1", "1", "1">>

Card4111111111111112 ==
    <<"4", "1", "1", "1", "1", "1", "1", "1", "1", "1", "1", "1", "1", "1", "1", "2">>

\* C20 as stated: validateLuhn ignores separators and returns true exactly
\* when the sum, with every second digit from the right doubled (less 9 above
\* 9), is divisible by 10.
C20_ValidIffSumDivisible ==
    LuhnValidated =>
        (luhnResult <=> LuhnSum(CardDigits, Len(CardDigits)) % 10 = 0)

\* C20: validateLuhn ignores separators and returns true exactly when there
\* is at least one digit and the sum, with every second digit from the right
\* doubled (less 9 above 9), is divisible by 10; 4111111111111111 passes and
\* 4111111111111112 fails.
C20_ValidIffDigitsAndSumDivisible ==
    LuhnValidated =>
        /\ luhnResult <=> /\ Len(CardDigits) > 0
                          /\ LuhnSum(CardDigits, Len(CardDigits)) % 10 = 0
        /\ CardDigits = Card4111111111111111 => luhnResult
        /\ CardDigits = Card4111111111111112 => ~luhnResult

\* the valid card number written with dashes, accepted
C20_Witness ==
    /\ LuhnValidated
    /\ luhnInput = Join(<<<<"4", "1", "1", "1">>, <<"1", "1", "1", "1">>,
                          <<"1", "1", "1", "1">>, <<"1", "1", "1", "1">>>>, <<"-">>)
    /\ luhnResult

(***************************************************************************)
(* The IP address recognizer (ipAddressRecognizer): IPV4_PATTERN, find,    *)
(* validate and isValidIPv4.  The texts of the model hold no colon, so     *)
(* that no pattern of IPV6_PATTERNS matches in them.                       *)
(***************************************************************************)
MaxOctetDigits == 3  \* digits of a dotted part of the text given

\* \w
WordChars == Letters \cup DigitChars \cup {"_"}

\* \b at offset pos: exactly one of the characters around it is a word character
WordBoundary(text, pos) ==
    (pos > 0 /\ text[pos] \in WordChars)
        # (pos < Len(text) /\ text[pos + 1] \in WordChars)

CharIn(text, pos, set) == pos < Len(text) /\ text[pos + 1] \in set

\* 25[0-5]|2[0-4][0-9]|1[0-9]{2}|[1-9][0-9]|[0-9] at pos: the length each
\* alternative matches, in the order of the alternatives
OctetAlternatives(text, pos) ==
    (IF CharIn(text, pos, {"2"}) /\ CharIn(text, pos + 1, {"5"})
        /\ CharIn(text, pos + 2, {"0", "1", "2", "3", "4", "5"})
     THEN <<3>> ELSE <<>>)
    \o (IF CharIn(text, pos, {"2"}) /\ CharIn(text, pos + 1, {"0", "1", "2", "3", "4"})
           /\ CharIn(text, pos + 2, DigitChars)
        THEN <<3>> ELSE <<>>)
    \o (IF CharIn(text, pos, {"1"}) /\ CharIn(text, pos + 1, DigitChars)
           /\ CharIn(text, pos + 2, DigitChars)
        THEN <<3>> ELSE <<>>)
    \o (IF CharIn(text, pos, DigitChars \ {"0"}) /\ CharIn(text, pos + 1, DigitChars)
        THEN <<2>> ELSE <<>>)
    \o (IF CharIn(text, pos, DigitChars) THEN <<1>> ELSE <<>>)

\* end of the match of octets k..4 at pos, -1 without one: three octets each
\* followed by a dot, the fourth by \b; a later failure gives an octet back
\* to its next alternative
RECURSIVE MatchOctets(_, _, _)
RECURSIVE TryOctet(_, _, _, _, _)
MatchOctets(text, pos, k) == TryOctet(text, pos, k, OctetAlternatives(text, pos), 1)

TryOctet(text, pos, k, lengths, a) ==
    IF a > Len(lengths) THEN -1
    ELSE IF k = 4
    THEN IF WordBoundary(text, pos + lengths[a])
         THEN pos + lengths[a]
         ELSE TryOctet(text, pos, k, lengths, a + 1)
    ELSE IF CharIn(text, pos + lengths[a], {"."})
            /\ MatchOctets(text, pos + lengths[a] + 1, k + 1) # -1
    THEN MatchOctets(text, pos + lengths[a] + 1, k + 1)
    ELSE TryOctet(text, pos, k, lengths, a + 1)

\* IPV4_PATTERN at pos
MatchIPv4(text, pos) ==
    IF WordBoundary(text, pos) THEN MatchOctets(text, pos, 1) ELSE -1

\* text.matchAll(ipv4Pattern): the matches from lastIndex on
RECURSIVE matchAllIPv4(_, _)
matchAllIPv4(text, lastIndex) ==
    IF lastIndex >= Len(text) THEN <<>>
    ELSE IF MatchIPv4(text, lastIndex) = -1 THEN matchAllIPv4(text, lastIndex + 1)
    ELSE <<[index |-> lastIndex,
            matched |-> Slice(text, lastIndex, MatchIPv4(text, lastIndex))]>>
         \o matchAllIPv4(text, MatchIPv4(text, lastIndex))

\* ip.split('.')
RECURSIVE split(_, _)
split(str, separator) ==
    IF separator \notin Range(str) THEN <<str>>
    ELSE <<Slice(str, 0, indexOf(str, separator, 0))>>
         \o split(SliceFrom(str, indexOf(str, separator, 0) + 1), separator)

\* a part of digits is rejected when parseInt gives NaN (the empty part), a
\* number above 255, or when it has a leading zero and is not "0" itself
PartRejected(part) ==
    \/ part = <<>>
    \/ parseInt(part) > 255
    \/ Len(part) > 1 /\ part[1] = "0"

\* the mutant does not ask for a large octet
hasLargeOctet_any(parts) == TRUE

\* hasLargeOctet after the loop: some octet is above 9
hasLargeOctet(parts) == \E i \in DOMAIN parts : parseInt(parts[i]) > 9

isValidParts(parts) ==
    IF Len(parts) # 4 THEN FALSE
    ELSE IF \E i \in DOMAIN parts : PartRejected(parts[i]) THEN FALSE
    ELSE hasLargeOctet(parts)

isValidIPv4(ip) == isValidParts(split(ip, "."))

\* ipAddressRecognizer.validate: a string with a dot and no colon is IPv4
validateIp(ip) == IF "." \in Range(ip) THEN isValidIPv4(ip) ELSE FALSE

IpSpanMatch(match) ==
    [type |-> IP_ADDRESS, start |-> match.index,
     end |-> match.index + Len(match.matched), confidence |-> 90,
     source |-> "REGEX", text |-> match.matched]

\* ipAddressRecognizer.find: the IPv4 matches that validate
RECURSIVE KeepValid(_, _)
KeepValid(found, n) ==
    IF n = 0 THEN <<>>
    ELSE KeepValid(found, n - 1)
         \o (IF validateIp(found[n].matched) THEN <<IpSpanMatch(found[n])>> ELSE <<>>)

ipFind(text) == KeepValid(matchAllIPv4(text, 0), Len(matchAllIPv4(text, 0)))

\* the dotted parts given: strings of digits, the empty one among them
OctetStrings ==
    {part \in {<<>>, <<"0">>, <<"4">>, <<"1", "0">>, <<"0", "1">>,
               <<"2", "5", "5">>, <<"2", "5", "6">>, <<"1", "0", "0", "0">>} :
        Len(part) <= MaxOctetDigits}

\* what stands before and after the dotted parts
IpFrames ==
    {[before |-> <<>>, after |-> <<>>],
     [before |-> <<"V", "e", "r", "s", "i", "o", "n", " ">>,
      after |-> <<" ", "r", "e", "l", "e", "a", "s", "e", "d">>],
     [before |-> <<"v">>, after |-> <<>>]}

InitIpv4 ==
    /\ pc = "ip_input"
    /\ ipParts \in UNION {[1..k -> OctetStrings] : k \in 3..5}
                   \cup {<<<<"1">>, <<"2">>, <<"3">>, <<"4">>>>}
    /\ \E frame \in IpFrames :
           ipText = frame.before \o Join(ipParts, <<".">>) \o frame.after
    /\ ipMatches = <<>>
    /\ ipValid = Nothing
    /\ ResolverIdle
    /\ TaggerIdle
    /\ RehydratorIdle
    /\ VaultIdle
    /\ ValidatorIdle
    /\ RegistryIdle
    /\ ChecksumsIdle
    /\ MergerIdle
    /\ DecoderIdle
    /\ OverlapsIdle
    /\ LineEndingIdle
    /\ TritonClientIdle
    /\ TritonModelIdle

FindIp ==
    /\ pc = "ip_input"
    /\ ipMatches' = ipFind(ipText)
    /\ pc' = "ip_found"
    /\ UNCHANGED <<ipParts, ipText, ipValid>>
    /\ UNCHANGED outsideIpv4

ValidateIp ==
    /\ pc = "ip_input"
    /\ ipValid' = validateIp(Join(ipParts, <<".">>))
    /\ pc' = "ip_validated"
    /\ UNCHANGED <<ipParts, ipText, ipMatches>>
    /\ UNCHANGED outsideIpv4

NextIpv4 == FindIp \/ ValidateIp

SpecIpv4 == InitIpv4 /\ [][NextIpv4]_vars

(***************************************************************************)
(* Claims about the IP address recognizer.                                 *)
(***************************************************************************)
\* the number a string of digits writes, by the place of each digit
RECURSIVE DecimalValue(_, _, _)
DecimalValue(str, n, weight) ==
    IF n = 0 THEN 0
    ELSE (CHOOSE v \in 0..9 : Digits[v + 1] = str[n]) * weight
         + DecimalValue(str, n - 1, weight * 10)

\* an octet 0..255 written without a leading zero
IsOctet(part) ==
    /\ Len(part) \in 1..3
    /\ Len(part) > 1 => part[1] # "0"
    /\ DecimalValue(part, Len(part), 1) <= 255

\* four octets, one of them above 9
IsAcceptableQuad(parts) ==
    /\ Len(parts) = 4
    /\ \A i \in DOMAIN parts : IsOctet(parts[i])
    /\ \E i \in DOMAIN parts : DecimalValue(parts[i], Len(parts[i]), 1) > 9

\* the runs of four consecutive parts of the text given
QuadsOfText ==
    {SubSeq(ipParts, i, i + 3) : i \in 1..(Len(ipParts) - 3)}

Version1234Released ==
    <<"V", "e", "r", "s", "i", "o", "n", " ", "1", ".", "2", ".", "3", ".", "4",
      " ", "r", "e", "l", "e", "a", "s", "e", "d">>

\* C21: a dotted quad is accepted as an IP address, by validate and by find,
\* only if it has exactly four octets in 0..255, none with a leading zero
\* other than "0", and one of them above 9; "Version 1.2.3.4 released"
\* gives no detection.
C21_OnlyAcceptableQuads ==
    /\ pc = "ip_found" /\ ipText = Version1234Released => ipMatches = <<>>
    /\ pc = "ip_validated" /\ ipValid => IsAcceptableQuad(ipParts)
    /\ pc = "ip_found" =>
           \A i \in DOMAIN ipMatches :
               \E quad \in QuadsOfText :
                   /\ ipMatches[i].text = Join(quad, <<".">>)
                   /\ IsAcceptableQuad(quad)

\* an address among the parts of a framed text is found
C21_Witness ==
    /\ pc = "ip_found"
    /\ ipParts = <<<<"1", "0">>, <<"0">>, <<"4">>, <<"2", "5", "5">>>>
    /\ Len(ipText) > Len(Join(ipParts, <<".">>))
    /\ Len(ipMatches) = 1

(***************************************************************************)
(* Merging of adjacent NER spans (ner/triton-ner-model.ts,                 *)
(* mergeAdjacentSpans).  A confidence is a number of hundredths; those of  *)
(* the model make every average a whole number.                            *)
(***************************************************************************)
MaxMergeSpans == 3   \* length of the list given to mergeAdjacentSpans

\* the default of the parameter maxGap
DefaultMaxGap == 1

\* [...spans].sort((a, b) => a.start - b.start): stable
RECURSIVE InsertByStart(_, _)
InsertByStart(s, x) ==
    IF s = <<>> THEN <<x>>
    ELSE IF x.start < s[Len(s)].start
    THEN Append(InsertByStart(SubSeq(s, 1, Len(s) - 1), x), s[Len(s)])
    ELSE Append(s, x)

RECURSIVE SortByStartPrefix(_, _)
SortByStartPrefix(s, n) ==
    IF n = 0 THEN <<>> ELSE InsertByStart(SortByStartPrefix(s, n - 1), s[n])

sortByStart(s) == SortByStartPrefix(s, Len(s))

\* /^\s*$/.test(gapText)
isOnlyWhitespace(gapText) == \A i \in DOMAIN gapText : gapText[i] \in WhitespaceChars

\* the mutant merges whatever the categories
CloseEnough_anyType(current, next, originalText, maxGap) ==
    /\ next.start - current.end <= maxGap
    /\ isOnlyWhitespace(Slice(originalText, current.end, next.start))

\* next.type === current.type && gap <= maxGap && isOnlyWhitespace
CloseEnough(current, next, originalText, maxGap) ==
    /\ next.type = current.type
    /\ next.start - current.end <= maxGap
    /\ isOnlyWhitespace(Slice(originalText, current.end, next.start))

\* { ...current, end, text, confidence }
MergeInto(current, next, originalText) ==
    [current EXCEPT !.end = next.end,
                    !.text = Slice(originalText, current.start, next.end),
                    !.confidence = (current.confidence + next.confidence) \div 2]

\* the loop from i on (1-based), `current` in hand: what is pushed to merged
RECURSIVE MergeLoop(_, _, _, _, _)
MergeLoop(sortedSpans, i, current, originalText, maxGap) ==
    IF i > Len(sortedSpans) THEN <<current>>
    ELSE IF CloseEnough(current, sortedSpans[i], originalText, maxGap)
    THEN MergeLoop(sortedSpans, i + 1,
                   MergeInto(current, sortedSpans[i], originalText),
                   originalText, maxGap)
    ELSE <<current>>
         \o MergeLoop(sortedSpans, i + 1, sortedSpans[i], originalText, maxGap)

mergeAdjacentSpans(spanList, originalText, maxGap) ==
    IF Len(spanList) <= 1 THEN spanList
    ELSE MergeLoop(sortByStart(spanList), 2, sortByStart(spanList)[1],
                   originalText, maxGap)

\* the texts given: a gap of one blank and one of a hyphen, or a gap of two
\* blanks
MergeTexts ==
    {<<"a", " ", "b", "-", "c">>, <<"a", " ", " ", "b", "c">>}

\* the spans given lie in the text, are one character long or the first two
\* characters, of two categories; the confidence differs with the start
MergeSpans(originalText) ==
    {[type |-> t, start |-> a, end |-> b, confidence |-> 96 - 16 * a,
      source |-> "NER", text |-> Slice(originalText, a, b)] :
        t \in {PERSON, ORG}, a \in 0..(Len(originalText) - 1), b \in 1..Len(originalText)}
    \cap {m \in [type : {PERSON, ORG}, start : Nat, end : Nat, confidence : Nat,
                 source : {"NER"}, text : Seq(STRING)] :
              m.end - m.start = 1 \/ (m.start = 0 /\ m.end = 2)}

InitMerger ==
    /\ pc = "merge_input"
    /\ mergeText \in MergeTexts
    /\ mergeSpans \in SeqsUpTo(MergeSpans(mergeText), MaxMergeSpans)
    /\ mergeResult = Nothing
    /\ ResolverIdle
    /\ TaggerIdle
    /\ RehydratorIdle
    /\ VaultIdle
    /\ ValidatorIdle
    /\ RegistryIdle
    /\ ChecksumsIdle
    /\ Ipv4Idle
    /\ DecoderIdle
    /\ OverlapsIdle
    /\ LineEndingIdle
    /\ TritonClientIdle
    /\ TritonModelIdle

Merge ==
    /\ pc = "merge_input"
    /\ mergeResult' = mergeAdjacentSpans(mergeSpans, mergeText, DefaultMaxGap)
    /\ pc' = "merged"
    /\ UNCHANGED <<mergeSpans, mergeText>>
    /\ UNCHANGED outsideMerger

NextMerger == Merge

SpecMerger == InitMerger /\ [][NextMerger]_vars

(***************************************************************************)
(* Claims about mergeAdjacentSpans.                                        *)
(***************************************************************************)
Merged == pc = "merged"

\* place of span i of the list given when the list is put in start order,
\* spans of equal start keeping their order
StartRank(i) ==
    1 + Cardinality({j \in DOMAIN mergeSpans :
                        \/ mergeSpans[j].start < mergeSpans[i].start
                        \/ mergeSpans[j].start = mergeSpans[i].start /\ j < i})

\* the span at place k of the start order
InStartOrder(k) == mergeSpans[CHOOSE i \in DOMAIN mergeSpans : StartRank(i) = k]

\* the spans at places k and k + 1 have one category, and what the text
\* holds between them is at most one character, all of it whitespace
MergesWithNext(k) ==
    /\ InStartOrder(k).type = InStartOrder(k + 1).type
    /\ InStartOrder(k + 1).start - InStartOrder(k).end <= 1
    /\ \A p \in InStartOrder(k).end .. (InStartOrder(k + 1).start - 1) :
           mergeText[p + 1] \in {" ", "\t", "\n"}

\* places at which a returned span begins, and the place at which it ends
ChainHeads == {k \in DOMAIN mergeSpans : k = 1 \/ ~MergesWithNext(k - 1)}

ChainEnd(h) ==
    CHOOSE e \in h..Len(mergeSpans) :
        /\ \A k \in h..(e - 1) : MergesWithNext(k)
        /\ e = Len(mergeSpans) \/ ~MergesWithNext(e)

\* the returned span of the chain that begins at place h
ChainSpan(h) == mergeResult[Cardinality({k \in ChainHeads : k <= h})]

\* C22: consecutive spans in start order are merged exactly when they have
\* one category and at most one character, all whitespace, between them; a
\* merged span runs from the start of the first to the end of the last, the
\* confidence of two merged spans is their average, and a span that merges
\* with no neighbour is returned as it is.
C22_MergedIffAdjacent ==
    Merged =>
        /\ Len(mergeResult) = Cardinality(ChainHeads)
        /\ \A h \in ChainHeads :
               /\ ChainSpan(h).type = InStartOrder(h).type
               /\ ChainSpan(h).start = InStartOrder(h).start
               /\ ChainSpan(h).end = InStartOrder(ChainEnd(h)).end
               /\ ChainEnd(h) = h => ChainSpan(h) = InStartOrder(h)
               /\ ChainEnd(h) = h + 1 =>
                      2 * ChainSpan(h).confidence
                          = InStartOrder(h).confidence + InStartOrder(h + 1).confidence

\* three spans given out of order: two of them merged with the average of
\* their confidences, the third returned as it is
C22_Witness ==
    /\ Merged
    /\ Len(mergeSpans) = 3
    /\ mergeSpans[1].start > mergeSpans[2].start
    /\ Len(mergeResult) = 2
    /\ \E h \in ChainHeads :
           /\ ChainEnd(h) = h + 1
           /\ InStartOrder(h).end < InStartOrder(h + 1).start
           /\ InStartOrder(h).confidence # InStartOrder(h + 1).confidence

Covers(outer, inner) == outer.start <= inner.start /\ inner.end <= outer.end

\* C30: the range of every span given lies inside the range of a returned
\* span, and no returned span ends before it starts.
C30_MergeKeepsCoverage ==
    Merged =>
        /\ \A i \in DOMAIN mergeSpans :
               \E k \in DOMAIN mergeResult : Covers(mergeResult[k], mergeSpans[i])
        /\ \A k \in DOMAIN mergeResult : mergeResult[k].end >= mergeResult[k].start

\* a span of two characters followed by a span of the same category and start
\* that is one character long: the second character is no longer covered
C30_FailingInput ==
    /\ Merged
    /\ Len(mergeSpans) = 2
    /\ mergeSpans[1].type = mergeSpans[2].type
    /\ mergeSpans[1].start = 0 /\ mergeSpans[1].end = 2
    /\ mergeSpans[2].start = 0 /\ mergeSpans[2].end = 1
    /\ Len(mergeResult) = 1 /\ mergeResult[1].end = 1

\* spans given that do not overlap stay covered
C30_DisjointSpansKeepCoverage ==
    Merged /\ NoOverlaps(mergeSpans) =>
        \A i \in DOMAIN mergeSpans :
            \E k \in DOMAIN mergeResult : Covers(mergeResult[k], mergeSpans[i])

(***************************************************************************)
(* BIO decoding (ner/triton-ner-model.ts, parseBIOLabel and                *)
(* decodeBIOTags), one step per iteration of the loop over the tokens.     *)
(***************************************************************************)
MaxTokens == 4       \* number of tokens given to decodeBIOTags

\* parseBIOLabel: tag and entityType of a label
parseBIOLabel(label) ==
    IF label \in {<<"O">>, <<"[", "P", "A", "D", "]">>, <<"[", "C", "L", "S", "]">>,
                  <<"[", "S", "E", "P", "]">>}
    THEN [tag |-> "O", entityType |-> Nothing]
    ELSE IF Len(split(label, "-")) # 2 THEN [tag |-> "O", entityType |-> Nothing]
    ELSE IF toUpperCase(split(label, "-")[1]) \in {<<"B">>, <<"I">>}
    THEN [tag |-> toUpperCase(split(label, "-")[1])[1],
          entityType |-> split(label, "-")[2]]
    ELSE [tag |-> "O", entityType |-> Nothing]

\* the entity a token opens; i is the 0-based index of the token
NewEntity(token, entityType, confidence, originalText, i) ==
    [type |-> entityType, start |-> token.start, end |-> token.end,
     confidence |-> confidence,
     text |-> Slice(originalText, token.start, token.end),
     tokenIndices |-> <<i>>]

\* the current entity extended by a token
Extended(current, token, confidence, originalText, i) ==
    [current EXCEPT
        !.end = token.end,
        !.text = Slice(originalText, current.start, token.end),
        !.tokenIndices = Append(@, i),
        !.confidence = (@ * Len(current.tokenIndices) + confidence)
                           \div (Len(current.tokenIndices) + 1)]

\* entities.push(currentEntity) when there is one
Pushed(list, current) == IF current # Nothing THEN Append(list, current) ELSE list

\* the mutant extends an open entity whatever its type
Continues_anyType(current, entityType) == current # Nothing

\* currentEntity !== null && entityType === currentEntity.type
Continues(current, entityType) == current # Nothing /\ entityType = current.type

\* the tokens given: token i (0-based) covers the character at offset 2 * i,
\* a special token covers nothing
BioLabels ==
    {<<"O">>, <<"B", "-", "P", "E", "R">>, <<"I", "-", "P", "E", "R">>,
     <<"B", "-", "O", "R", "G">>, <<"I", "-", "O", "R", "G">>}

Token(i, isSpecial) ==
    [id |-> i, start |-> IF isSpecial THEN 0 ELSE 2 * i,
     end |-> IF isSpecial THEN 0 ELSE 2 * i + 1, isSpecial |-> isSpecial]

\* the text under n tokens: a letter under each token, blanks between
BioTextOf(n) == [p \in 1..(2 * n) |-> IF p % 2 = 1 THEN "a" ELSE " "]

InitDecoder ==
    /\ pc = "decoding"
    /\ \E n \in 0..MaxTokens :
           /\ \E special \in [1..n -> BOOLEAN] :
                  bioTokens = [k \in 1..n |-> Token(k - 1, special[k])]
           /\ bioLabels \in [1..n -> BioLabels]
           /\ bioConfidences = [k \in 1..n |-> 90]
           /\ bioText = BioTextOf(n)
    /\ \A k \in DOMAIN bioTokens :
           bioTokens[k].isSpecial => bioLabels[k] = <<"O">>
    /\ bioIndex = 0
    /\ currentEntity = Nothing
    /\ bioEntities = <<>>
    /\ ResolverIdle
    /\ TaggerIdle
    /\ RehydratorIdle
    /\ VaultIdle
    /\ ValidatorIdle
    /\ RegistryIdle
    /\ ChecksumsIdle
    /\ Ipv4Idle
    /\ MergerIdle
    /\ OverlapsIdle
    /\ LineEndingIdle
    /\ TritonClientIdle
    /\ TritonModelIdle

\* the token, label and confidence of the iteration at hand
AtToken == pc = "decoding" /\ bioIndex < Len(bioTokens)

ThisToken == bioTokens[bioIndex + 1]

ThisLabel == parseBIOLabel(bioLabels[bioIndex + 1])

DecoderInputs == <<bioTokens, bioLabels, bioConfidences, bioText>>

\* token.isSpecial: close the current entity and continue
SkipSpecial ==
    /\ AtToken
    /\ ThisToken.isSpecial
    /\ bioEntities' = Pushed(bioEntities, currentEntity)
    /\ currentEntity' = Nothing
    /\ bioIndex' = bioIndex + 1
    /\ UNCHANGED <<pc, DecoderInputs>>
    /\ UNCHANGED outsideDecoder

\* case BIOTag.B
BeginEntity ==
    /\ AtToken
    /\ ~ThisToken.isSpecial
    /\ ThisLabel.tag = "B"
    /\ bioEntities' = Pushed(bioEntities, currentEntity)
    /\ currentEntity' = NewEntity(ThisToken, ThisLabel.entityType,
                                  bioConfidences[bioIndex + 1], bioText, bioIndex)
    /\ bioIndex' = bioIndex + 1
    /\ UNCHANGED <<pc, DecoderInputs>>
    /\ UNCHANGED outsideDecoder

\* case BIOTag.I
InsideEntity ==
    /\ AtToken
    /\ ~ThisToken.isSpecial
    /\ ThisLabel.tag = "I"
    /\ IF Continues(currentEntity, ThisLabel.entityType)
       THEN /\ currentEntity' = Extended(currentEntity, ThisToken,
                                         bioConfidences[bioIndex + 1], bioText,
                                         bioIndex)
            /\ UNCHANGED bioEntities
       ELSE /\ bioEntities' = Pushed(bioEntities, currentEntity)
            /\ currentEntity' = NewEntity(ThisToken, ThisLabel.entityType,
                                          bioConfidences[bioIndex + 1], bioText,
                                          bioIndex)
    /\ bioIndex' = bioIndex + 1
    /\ UNCHANGED <<pc, DecoderInputs>>
    /\ UNCHANGED outsideDecoder

\* case BIOTag.O
OutsideEntity ==
    /\ AtToken
    /\ ~ThisToken.isSpecial
    /\ ThisLabel.tag = "O"
    /\ bioEntities' = Pushed(bioEntities, currentEntity)
    /\ currentEntity' = Nothing
    /\ bioIndex' = bioIndex + 1
    /\ UNCHANGED <<pc, DecoderInputs>>
    /\ UNCHANGED outsideDecoder

\* after the loop: the last entity is closed and the list returned
CloseLast ==
    /\ pc = "decoding"
    /\ bioIndex = Len(bioTokens)
    /\ bioEntities' = Pushed(bioEntities, currentEntity)
    /\ currentEntity' = Nothing
    /\ pc' = "decoded"
    /\ UNCHANGED <<bioIndex, DecoderInputs>>
    /\ UNCHANGED outsideDecoder

NextDecoder ==
    SkipSpecial \/ BeginEntity \/ InsideEntity \/ OutsideEntity \/ CloseLast

SpecDecoder == InitDecoder /\ [][NextDecoder]_vars

(***************************************************************************)
(* Claims about decodeBIOTags.  Tokens are counted from 1 here, the token  *)
(* indices of an entity from 0 as in the source.                           *)
(***************************************************************************)
Decoded == pc = "decoded"

\* token k is not special and its label is B-X or I-X
Labelled(k) ==
    /\ ~bioTokens[k].isSpecial
    /\ Len(bioLabels[k]) > 2
    /\ bioLabels[k][1] \in {"B", "I"}
    /\ bioLabels[k][2] = "-"

\* the X of the label of token k
LabelType(k) == SubSeq(bioLabels[k], 3, Len(bioLabels[k]))

\* token k opens an entity: a B label always, an I label unless the token
\* before it belongs to an entity of the same type
Opens(k) ==
    /\ Labelled(k)
    /\ \/ bioLabels[k][1] = "B"
       \/ k = 1
       \/ ~Labelled(k - 1)
       \/ LabelType(k - 1) # LabelType(k)

\* the last token of the entity that token k opens
LastTokenOf(k) ==
    CHOOSE e \in k..Len(bioTokens) :
        /\ \A j \in (k + 1)..e : Labelled(j) /\ ~Opens(j)
        /\ e = Len(bioTokens) \/ ~Labelled(e + 1) \/ Opens(e + 1)

OpeningTokens == {k \in DOMAIN bioTokens : Opens(k)}

\* the entity returned for the opening token k
EntityOf(k) == bioEntities[Cardinality({j \in OpeningTokens : j <= k})]

\* the entities that hold the token index i
EntitiesWith(i) ==
    {n \in DOMAIN bioEntities :
        \E j \in DOMAIN bioEntities[n].tokenIndices :
            bioEntities[n].tokenIndices[j] = i}

\* C23: decoding is a state machine over the tokens.  While it runs, an
\* entity is open exactly when the token just read is not special and is
\* labelled B or I, and it has the type of that label.  At the end there is
\* one entity for each token that opens one (a B-X label, or an I-X label
\* that does not continue an open entity of type X), made of that token and
\* the I-X tokens that follow it, up to the next O label, special token,
\* opening token or the end of the sequence; so every labelled token is in
\* exactly one entity, no other token is in one, and the entities come in
\* token order with character ranges that do not overlap.
C23_BioStateMachine ==
    /\ pc = "decoding" =>
           /\ currentEntity # Nothing <=> bioIndex > 0 /\ Labelled(bioIndex)
           /\ currentEntity # Nothing =>
                  /\ currentEntity.type = LabelType(bioIndex)
                  /\ currentEntity.tokenIndices[Len(currentEntity.tokenIndices)]
                         = bioIndex - 1
    /\ Decoded =>
           /\ Len(bioEntities) = Cardinality(OpeningTokens)
           /\ \A k \in OpeningTokens :
                  /\ EntityOf(k).type = LabelType(k)
                  /\ EntityOf(k).tokenIndices
                         = [j \in 1..(LastTokenOf(k) - k + 1) |-> k + j - 2]
                  /\ EntityOf(k).start = bioTokens[k].start
                  /\ EntityOf(k).end = bioTokens[LastTokenOf(k)].end
           /\ \A k \in DOMAIN bioTokens :
                  Cardinality(EntitiesWith(k - 1)) = IF Labelled(k) THEN 1 ELSE 0
           /\ \A n \in 1..(Len(bioEntities) - 1) :
                  bioEntities[n].end <= bioEntities[n + 1].start

\* B-PER I-PER I-ORG B-ORG: an entity of two tokens, an entity opened by an
\* I label of another type, and an entity still open at the end
C23_Witness ==
    /\ Decoded
    /\ Len(bioTokens) = 4
    /\ \A k \in DOMAIN bioTokens : ~bioTokens[k].isSpecial
    /\ bioLabels = <<<<"B", "-", "P", "E", "R">>, <<"I", "-", "P", "E", "R">>,
                     <<"I", "-", "O", "R", "G">>, <<"B", "-", "O", "R", "G">>>>
    /\ Len(bioEntities) = 3
    /\ bioEntities[1].tokenIndices = <<0, 1>>
    /\ bioEntities[3].tokenIndices = <<3>>

(***************************************************************************)
(* The two overlap checks: hasNoOverlaps (pipeline/validator.ts) and       *)
(* validateNoOverlaps (utils/offsets.ts).                                  *)
(***************************************************************************)
MaxOverlapSpans == 3 \* length of the list given to the overlap checks

\* sorted[i].end > sorted[i + 1].start
EndsAfterNextStarts(sortedSpans, i) == sortedSpans[i].end > sortedSpans[i + 1].start

hasNoOverlaps(entityList) ==
    IF Len(entityList) <= 1 THEN TRUE
    ELSE ~\E i \in 1..(Len(entityList) - 1) :
             EndsAfterNextStarts(sortByStart(entityList), i)

validateNoOverlaps(spanList) ==
    ~\E i \in 1..(Len(spanList) - 1) :
         sortSpansByPosition(spanList)[i].end > sortSpansByPosition(spanList)[i + 1].start

\* the spans given: inside [0, MaxPos - 1], the empty ones among them
OverlapSpans ==
    {[start |-> s, end |-> e] : s \in 0..(MaxPos - 1), e \in 0..(MaxPos - 1)} \cap
    {sp \in [start : Nat, end : Nat] : sp.start <= sp.end}

InitOverlaps ==
    /\ pc = "overlap_checks"
    /\ ovSpans \in SeqsUpTo(OverlapSpans, MaxOverlapSpans)
    /\ ovHas = Nothing
    /\ ovValidate = Nothing
    /\ ResolverIdle
    /\ TaggerIdle
    /\ RehydratorIdle
    /\ VaultIdle
    /\ ValidatorIdle
    /\ RegistryIdle
    /\ ChecksumsIdle
    /\ Ipv4Idle
    /\ MergerIdle
    /\ DecoderIdle
    /\ LineEndingIdle
    /\ TritonClientIdle
    /\ TritonModelIdle

HasNoOverlaps ==
    /\ pc = "overlap_checks"
    /\ ovHas' = hasNoOverlaps(ovSpans)
    /\ pc' = "has_checked"
    /\ UNCHANGED <<ovSpans, ovValidate>>
    /\ UNCHANGED outsideOverlaps

ValidateNoOverlaps ==
    /\ pc = "has_checked"
    /\ ovValidate' = validateNoOverlaps(ovSpans)
    /\ pc' = "both_checked"
    /\ UNCHANGED <<ovSpans, ovHas>>
    /\ UNCHANGED outsideOverlaps

NextOverlaps == HasNoOverlaps \/ ValidateNoOverlaps

SpecOverlaps == InitOverlaps /\ [][NextOverlaps]_vars

(***************************************************************************)
(* Claims about the overlap checks.                                        *)
(***************************************************************************)
BothChecked == pc = "both_checked"

\* no two spans of the list overlap under the half-open rule
NoTwoOverlap ==
    \A i, j \in DOMAIN ovSpans :
        i # j => ~(ovSpans[i].start < ovSpans[j].end
                   /\ ovSpans[j].start < ovSpans[i].end)

AllNonEmpty == \A i \in DOMAIN ovSpans : ovSpans[i].start < ovSpans[i].end

\* C24 as stated: both checks return true exactly when no two spans of the
\* list overlap under the half-open rule.
C24_TrueIffNoTwoOverlap ==
    BothChecked => /\ ovHas <=> NoTwoOverlap
                   /\ ovValidate <=> NoTwoOverlap

\* For spans of positive length both checks return true exactly when no two
\* spans of the list overlap under the half-open rule, whatever the order of
\* the list; touching spans, the empty list and a single span give true.
C24_NonEmptySpansTrueIffNoTwoOverlap ==
    BothChecked /\ AllNonEmpty =>
        /\ ovHas <=> NoTwoOverlap
        /\ ovValidate <=> NoTwoOverlap
        /\ Len(ovSpans) <= 1 => ovHas /\ ovValidate

\* a span followed by an empty span of the same start: hasNoOverlaps answers
\* false, and true for the two in the other order
C24_FailingInput ==
    /\ BothChecked
    /\ ovSpans = <<[start |-> 0, end |-> 2], [start |-> 0, end |-> 0]>>
    /\ ~ovHas
    /\ hasNoOverlaps(<<ovSpans[2], ovSpans[1]>>)


(***************************************************************************)
(* validateOutput run on what tagEntities returns: the anonymized text,    *)
(* the entities and the keys of the plaintext map, with the leak scan      *)
(* disabled.  The texts hold no "<PII" but hold its beginnings and ends.   *)
(***************************************************************************)
PlainPieces == {<<"a">>, <<"<", "P">>, <<"I", "I">>, <<">">>}

\* text.includes(needle)
includes(text, needle) ==
    \E i \in 0..(Len(text) - Len(needle)) : Slice(text, i, i + Len(needle)) = needle

\* SpanMatch records over the pieces, the empty ones among them
SpanMatchesWithEmpty(pieces) ==
    {[type |-> t, start |-> PieceOffset(pieces, i), end |-> PieceOffset(pieces, j),
      confidence |-> 90, source |-> "REGEX",
      text |-> Slice(Flatten(pieces), PieceOffset(pieces, i), PieceOffset(pieces, j))] :
        t \in MatchTypes, i \in 0..Len(pieces), j \in 0..Len(pieces)}
    \cap {m \in [type : MatchTypes, start : Nat, end : Nat, confidence : {90},
                 source : {"REGEX"}, text : Seq(STRING)] : m.start <= m.end}

\* [...piiMap.keys()]
RECURSIVE KeysOfSet(_)
KeysOfSet(keySet) ==
    IF keySet = {} THEN <<>>
    ELSE LET k == CHOOSE x \in keySet : TRUE IN <<k>> \o KeysOfSet(keySet \ {k})

mapKeys(piiMap) == KeysOfSet(DOMAIN piiMap)

LeakScanOff == [enableLeakScan |-> FALSE, enabledTypes |-> PIIType]

InitTaggedValidation ==
    /\ pc = "tag_input"
    /\ \E pieces \in SeqsUpTo(PlainPieces, MaxPieces) :
        /\ inText = Flatten(pieces)
        /\ ~includes(inText, <<"<", "P", "I", "I">>)
        /\ inMatches \in {ms \in SeqsUpTo(SpanMatchesWithEmpty(pieces), MaxMatches) :
                              NoOverlaps(ms)}
    /\ inPolicy \in [reuseIdsForRepeatedPII : BOOLEAN]
    /\ tagged = [anonymizedText |-> <<>>, entities |-> <<>>, piiMap |-> <<>>]
    /\ restored = <<>>
    /\ ResolverIdle
    /\ RehydratorIdle
    /\ VaultIdle
    /\ ValidatorIdle
    /\ RegistryIdle
    /\ ChecksumsIdle
    /\ Ipv4Idle
    /\ MergerIdle
    /\ DecoderIdle
    /\ OverlapsIdle
    /\ LineEndingIdle
    /\ TritonClientIdle
    /\ TritonModelIdle

ValidateTagged ==
    /\ pc = "tagged"
    /\ validation' = validateOutput(tagged.anonymizedText, tagged.entities,
                                    mapKeys(tagged.piiMap), LeakScanOff)
    /\ pc' = "tag_validated"
    /\ UNCHANGED <<valDoc, valText, valEntities, valKeys, valPolicy>>
    /\ UNCHANGED outsideValidator

NextTaggedValidation == TagEntities \/ ValidateTagged

SpecTaggedValidation == InitTaggedValidation /\ [][NextTaggedValidation]_vars

(***************************************************************************)
(* Claims about the tagger's output under the validator.                   *)
(***************************************************************************)
TagValidated == pc = "tag_validated"

StructuralCodes ==
    {"OVERLAPPING_ENTITIES", "DUPLICATE_IDS", "MALFORMED_TAG", "ID_MISMATCH",
     "MISSING_IN_MAP"}

\* C25: for a text without "<PII" and pairwise non-overlapping spans, the
\* validator reports no structural error on the tagger's output, under both
\* values of the ID-reuse flag.
C25_TaggerOutputPassesStructuralChecks ==
    TagValidated =>
        \A i \in DOMAIN validation.errors :
            validation.errors[i].code \notin StructuralCodes

\* two spans of one text and category with a span's worth of "<P" "II"
\* around them, IDs reused: one ID on two entities, and no error
C25_Witness ==
    /\ TagValidated
    /\ inPolicy.reuseIdsForRepeatedPII
    /\ Len(tagged.entities) = 2
    /\ tagged.entities[1].id = tagged.entities[2].id
    /\ tagged.entities[1].start < tagged.entities[1].end
    /\ includes(inText, <<"<", "P">>)
    /\ validation.valid


(***************************************************************************)
(* Claims about the outcome of the validation and the leak scan.           *)
(***************************************************************************)
PassesStructuralChecks ==
    \A code \in StructuralCodes : ErrorsWithCode(code) = <<>>

\* C26: for input that passes all structural checks, validateOutput returns
\* valid = true whether or not the leak scan reports potential leaks.
C26_LeakScanAdvisory ==
    Validated /\ PassesStructuralChecks => validation.valid

\* the text " 1.1.1.1 " with no entity, leak scan enabled: no structural
\* error, one potential leak, and valid is false
C26_FailingInput ==
    /\ Validated
    /\ valPolicy.enableLeakScan
    /\ valEntities = <<>>
    /\ Len(valDoc) = 1 /\ valDoc[1].kind = "leak"
    /\ PassesStructuralChecks
    /\ Len(validation.potentialLeaks) = 1
    /\ ~validation.valid

\* what does hold: valid is true exactly when no error at all was found, a
\* potential leak counting as one error
C26_ValidIffNoErrorAndNoLeak ==
    Validated =>
        (validation.valid <=>
            /\ PassesStructuralChecks
            /\ valPolicy.enableLeakScan => validation.potentialLeaks = <<>>)


(***************************************************************************)
(* Line endings: prenormalize and createLineEndingMapping                  *)
(* (pipeline/validator.ts).                                                *)
(***************************************************************************)
MaxTextLen == 7      \* length of the text given to createLineEndingMapping

CR == "\r"
LF == "\n"

\* text.replace(/\r\n/g, '\n'), from offset i on
RECURSIVE ReplaceCrlf(_, _)
ReplaceCrlf(text, i) ==
    IF i >= Len(text) THEN <<>>
    ELSE IF i + 1 < Len(text) /\ text[i + 1] = CR /\ text[i + 2] = LF
    THEN <<LF>> \o ReplaceCrlf(text, i + 2)
    ELSE <<text[i + 1]>> \o ReplaceCrlf(text, i + 1)

\* text.replace(/\r/g, '\n')
ReplaceCr(text) == [i \in DOMAIN text |-> IF text[i] = CR THEN LF ELSE text[i]]

\* prenormalize(text) with DEFAULT_PRENORMALIZE_OPTIONS
prenormalize(text) == ReplaceCr(ReplaceCrlf(text, 0))

\* the loop that finds the positions of \r\n, over i < n
RECURSIVE FindCrlf(_, _)
FindCrlf(originalText, n) ==
    IF n <= 0 THEN <<>>
    ELSE LET prev == FindCrlf(originalText, n - 1)
             i == n - 1
         IN  IF originalText[i + 1] = CR /\ originalText[i + 2] = LF
             THEN Append(prev, i) ELSE prev

\* the loop of toNormalized from position number k on: the adjustment
RECURSIVE ToNormalizedLoop(_, _, _, _)
ToNormalizedLoop(positions, k, originalOffset, adjustment) ==
    IF k > Len(positions) THEN adjustment
    ELSE IF positions[k] < originalOffset
    THEN ToNormalizedLoop(positions, k + 1, originalOffset, adjustment + 1)
    ELSE adjustment

\* currentNormalized + (pos - adjustment) <= normalizedOffset
PairReached(currentNormalized, pos, adjustment, normalizedOffset) ==
    currentNormalized + (pos - adjustment) <= normalizedOffset

\* the loop of toOriginal from position number k on: the adjustment
RECURSIVE ToOriginalLoop(_, _, _, _, _)
ToOriginalLoop(positions, k, normalizedOffset, adjustment, currentNormalized) ==
    IF k > Len(positions) THEN adjustment
    ELSE IF PairReached(currentNormalized, positions[k], adjustment, normalizedOffset)
    THEN ToOriginalLoop(positions, k + 1, normalizedOffset, adjustment + 1,
                        positions[k] - (adjustment + 1) + 1)
    ELSE adjustment

\* mapping.toNormalized(originalOffset); Nothing is the identity mapping
toNormalized(positions, originalOffset) ==
    IF positions = Nothing THEN originalOffset
    ELSE originalOffset - ToNormalizedLoop(positions, 1, originalOffset, 0)

\* mapping.toOriginal(normalizedOffset)
toOriginal(positions, normalizedOffset) ==
    IF positions = Nothing THEN normalizedOffset
    ELSE normalizedOffset + ToOriginalLoop(positions, 1, normalizedOffset, 0, 0)

\* the positions kept by createLineEndingMapping(originalText)
createLineEndingMapping(originalText) == FindCrlf(originalText, Len(originalText) - 1)

LineEndingChars == {"a", CR, LF}

InitLineEnding ==
    /\ pc = "line_text"
    /\ leText \in SeqsUpTo(LineEndingChars, MaxTextLen)
    /\ crlfPositions = Nothing
    /\ leOffset = 0
    /\ leOriginal = 0
    /\ leBack = 0
    /\ ResolverIdle
    /\ TaggerIdle
    /\ RehydratorIdle
    /\ VaultIdle
    /\ ValidatorIdle
    /\ RegistryIdle
    /\ ChecksumsIdle
    /\ Ipv4Idle
    /\ MergerIdle
    /\ DecoderIdle
    /\ OverlapsIdle
    /\ TritonClientIdle
    /\ TritonModelIdle

CreateLineEndingMapping ==
    /\ pc = "line_text"
    /\ crlfPositions' = createLineEndingMapping(leText)
    /\ pc' = "line_mapping"
    /\ UNCHANGED <<leText, leOffset, leOriginal, leBack>>
    /\ UNCHANGED outsideLineEnding

\* toOriginal(n) for an offset n of the normalized text, its end included
ToOriginal ==
    /\ pc = "line_mapping"
    /\ \E n \in 0..Len(prenormalize(leText)) :
        /\ leOffset' = n
        /\ leOriginal' = toOriginal(crlfPositions, n)
    /\ pc' = "line_original"
    /\ UNCHANGED <<leText, crlfPositions, leBack>>
    /\ UNCHANGED outsideLineEnding

ToNormalized ==
    /\ pc = "line_original"
    /\ leBack' = toNormalized(crlfPositions, leOriginal)
    /\ pc' = "line_back"
    /\ UNCHANGED <<leText, crlfPositions, leOffset, leOriginal>>
    /\ UNCHANGED outsideLineEnding

NextLineEnding == CreateLineEndingMapping \/ ToOriginal \/ ToNormalized

SpecLineEnding == InitLineEnding /\ [][NextLineEnding]_vars

(***************************************************************************)
(* Claims about the line ending mapping.                                   *)
(***************************************************************************)
MappedBack == pc = "line_back"

\* position i (from 0) of the text begins a CRLF pair
BeginsPair(i) == i + 1 < Len(leText) /\ leText[i + 1] = CR /\ leText[i + 2] = LF

\* the offsets of the characters that stay when every CR of a pair is taken
\* out, and the end of the text
StayingOffsets == {i \in 0..Len(leText) : ~BeginsPair(i)}

\* the offset in the original text of what stands at offset n afterwards
OriginalOffsetOf(n) ==
    CHOOSE i \in StayingOffsets : Cardinality({j \in StayingOffsets : j < i}) = n

CrlfPairs == {i \in 0..Len(leText) : BeginsPair(i)}

\* C27: toNormalized(toOriginal(n)) = n for every offset n of the normalized
\* text, and toOriginal(n) is the offset in the original text of the
\* character that stands at offset n after every CRLF is replaced by LF.
C27_OffsetMappingConsistent ==
    MappedBack =>
        /\ leBack = leOffset
        /\ leOriginal = OriginalOffsetOf(leOffset)

\* "aa\r\n\r\na": the offset 4 of the last "a" maps to 5, the offset of the
\* second LF, and back to 3
C27_FailingInput ==
    /\ MappedBack
    /\ leText = <<"a", "a", CR, LF, CR, LF, "a">>
    /\ leOffset = 4
    /\ leOriginal = 5
    /\ leBack = 3

\* what does hold: the mapping is consistent for a text with one CRLF pair
\* or none
C27_SinglePairConsistent ==
    MappedBack /\ Cardinality(CrlfPairs) <= 1 =>
        /\ leBack = leOffset
        /\ leOriginal = OriginalOffsetOf(leOffset)



(***************************************************************************)
(* TritonClient (ner/triton-client.ts): connect, ensureConnected, close.   *)
(* Each call of an async method runs up to its next await in one step;     *)
(* the steps of different calls interleave freely.                         *)
(***************************************************************************)
MaxCalls == 3        \* calls of connect() and of the methods that connect
MaxCloses == 2       \* calls of close()

Calls == 1..MaxCalls

\* a call that has not begun or has ended
CallOver(c) == tcCalls[c] \in {"returned", "threw"}

InitTritonClient ==
    /\ pc = "triton_client"
    /\ tcClient = 0
    /\ tcConnected = FALSE
    /\ tcCalls = [c \in Calls |-> "not_called"]
    /\ tcOpen = {}
    /\ tcCreated = 0
    /\ tcCloses = 0
    /\ ResolverIdle
    /\ TaggerIdle
    /\ RehydratorIdle
    /\ VaultIdle
    /\ ValidatorIdle
    /\ RegistryIdle
    /\ ChecksumsIdle
    /\ Ipv4Idle
    /\ MergerIdle
    /\ DecoderIdle
    /\ OverlapsIdle
    /\ LineEndingIdle
    /\ TritonModelIdle

\* connect() up to await loadGRPCDependencies()
Connect(c) ==
    /\ tcCalls[c] = "not_called"
    /\ tcCalls' = [tcCalls EXCEPT ![c] =
                      IF tcConnected THEN "returned" ELSE "loading_dependencies"]
    /\ UNCHANGED <<pc, tcClient, tcConnected, tcOpen, tcCreated, tcCloses>>
    /\ UNCHANGED outsideTritonClient

\* ensureConnected(), called first by isServerLive, isModelReady and infer:
\* it calls connect() unless connected and a client is held
EnsureConnected(c) ==
    /\ tcCalls[c] = "not_called"
    /\ tcCalls' = [tcCalls EXCEPT ![c] =
                      IF ~tcConnected \/ tcClient = 0
                      THEN (IF tcConnected THEN "returned" ELSE "loading_dependencies")
                      ELSE "returned"]
    /\ UNCHANGED <<pc, tcClient, tcConnected, tcOpen, tcCreated, tcCloses>>
    /\ UNCHANGED outsideTritonClient

\* loadGRPCDependencies() has resolved: up to await protoLoader.load(...)
DependenciesLoaded(c) ==
    /\ tcCalls[c] = "loading_dependencies"
    /\ tcCalls' = [tcCalls EXCEPT ![c] = "loading_proto"]
    /\ UNCHANGED <<pc, tcClient, tcConnected, tcOpen, tcCreated, tcCloses>>
    /\ UNCHANGED outsideTritonClient

\* loadGRPCDependencies() or protoLoader.load() has rejected
ConnectThrows(c) ==
    /\ tcCalls[c] \in {"loading_dependencies", "loading_proto"}
    /\ tcCalls' = [tcCalls EXCEPT ![c] = "threw"]
    /\ UNCHANGED <<pc, tcClient, tcConnected, tcOpen, tcCreated, tcCloses>>
    /\ UNCHANGED outsideTritonClient

\* protoLoader.load() has resolved: the client is created and kept
CreateClient(c) ==
    /\ tcCalls[c] = "loading_proto"
    /\ tcCreated' = tcCreated + 1
    /\ tcOpen' = tcOpen \cup {tcCreated + 1}
    /\ tcClient' = tcCreated + 1
    /\ tcConnected' = TRUE
    /\ tcCalls' = [tcCalls EXCEPT ![c] = "returned"]
    /\ UNCHANGED <<pc, tcCloses>>
    /\ UNCHANGED outsideTritonClient

Close ==
    /\ tcCloses < MaxCloses
    /\ tcCloses' = tcCloses + 1
    /\ IF tcClient # 0
       THEN /\ tcOpen' = tcOpen \ {tcClient}
            /\ tcClient' = 0
            /\ tcConnected' = FALSE
       ELSE UNCHANGED <<tcClient, tcConnected, tcOpen>>
    /\ UNCHANGED <<pc, tcCalls, tcCreated>>
    /\ UNCHANGED outsideTritonClient

NextTritonClient ==
    \/ \E c \in Calls : Connect(c)
    \/ \E c \in Calls : EnsureConnected(c)
    \/ \E c \in Calls : DependenciesLoaded(c)
    \/ \E c \in Calls : ConnectThrows(c)
    \/ \E c \in Calls : CreateClient(c)
    \/ Close

SpecTritonClient == InitTritonClient /\ [][NextTritonClient]_vars

(***************************************************************************)
(* Claims about TritonClient.                                              *)
(***************************************************************************)
\* the client objects that are open and that the TritonClient does not hold
DroppedOpen == tcOpen \ {tcClient}

\* C28: no client object is created and then overwritten or dropped without
\* being closed, and connected is true only while a client object is held.
C28_AtMostOneLiveConnection ==
    /\ DroppedOpen = {}
    /\ tcConnected => tcClient # 0

\* two calls of connect() both pass the connected test before either has
\* created its client: the first client is overwritten by the second
C28_FailingInput ==
    /\ tcCreated = 2
    /\ tcCloses = 0
    /\ tcClient = 2
    /\ tcOpen = {1, 2}
    /\ \E c \in Calls : tcCalls[c] = "not_called"

\* what does hold: connected is true exactly while a client object is held
C28_ConnectedIffClientHeld == tcConnected <=> tcClient # 0


(***************************************************************************)
(* TritonNERModel (ner/triton-ner-model.ts): load, predict, dispose.       *)
(* Each call of load() runs up to its next await in one step; the steps of *)
(* different calls, predict() and dispose() interleave freely.             *)
(***************************************************************************)
MaxLoads == 2        \* calls of load()

Loads == 1..MaxLoads

LoadInProgress ==
    \E c \in Loads : nmLoads[c] \in {"connecting", "checking_live", "checking_ready",
                                     "loading_vocab"}

InitTritonModel ==
    /\ pc = "model_created"
    /\ nmClient = 0
    /\ nmTokenizer = FALSE
    /\ nmIsLoaded = FALSE
    /\ nmLoads = [c \in Loads |-> "not_called"]
    /\ nmCreated = 0
    /\ nmClosed = {}
    /\ nmPredict = "none"
    /\ nmPredictAt = Nothing
    /\ ResolverIdle
    /\ TaggerIdle
    /\ RehydratorIdle
    /\ VaultIdle
    /\ ValidatorIdle
    /\ RegistryIdle
    /\ ChecksumsIdle
    /\ Ipv4Idle
    /\ MergerIdle
    /\ DecoderIdle
    /\ OverlapsIdle
    /\ LineEndingIdle
    /\ TritonClientIdle

\* load() up to await this.client.connect()
Load(c) ==
    /\ nmLoads[c] = "not_called"
    /\ IF nmIsLoaded
       THEN /\ nmLoads' = [nmLoads EXCEPT ![c] = "returned"]
            /\ UNCHANGED <<nmClient, nmCreated>>
       ELSE /\ nmCreated' = nmCreated + 1
            /\ nmClient' = nmCreated + 1
            /\ nmLoads' = [nmLoads EXCEPT ![c] = "connecting"]
    /\ pc' = "model_running"
    /\ UNCHANGED <<nmTokenizer, nmIsLoaded, nmClosed, nmPredict, nmPredictAt>>
    /\ UNCHANGED outsideTritonModel

\* connect() has resolved: up to await this.client.isServerLive(); this.client
\* is read again, and calling a method of null throws
Connected(c) ==
    /\ nmLoads[c] = "connecting"
    /\ nmLoads' = [nmLoads EXCEPT ![c] =
                      IF nmClient = 0 THEN "threw" ELSE "checking_live"]
    /\ pc' = "model_running"
    /\ UNCHANGED <<nmClient, nmTokenizer, nmIsLoaded, nmCreated, nmClosed, nmPredict,
                   nmPredictAt>>
    /\ UNCHANGED outsideTritonModel

\* isServerLive() has resolved to true: up to await this.client.isModelReady();
\* this.client is read again
ServerLive(c) ==
    /\ nmLoads[c] = "checking_live"
    /\ nmLoads' = [nmLoads EXCEPT ![c] =
                      IF nmClient = 0 THEN "threw" ELSE "checking_ready"]
    /\ pc' = "model_running"
    /\ UNCHANGED <<nmClient, nmTokenizer, nmIsLoaded, nmCreated, nmClosed, nmPredict,
                   nmPredictAt>>
    /\ UNCHANGED outsideTritonModel

\* isModelReady() has resolved to true: up to the awaits that load the
\* vocabulary
ModelReady(c) ==
    /\ nmLoads[c] = "checking_ready"
    /\ nmLoads' = [nmLoads EXCEPT ![c] = "loading_vocab"]
    /\ pc' = "model_running"
    /\ UNCHANGED <<nmClient, nmTokenizer, nmIsLoaded, nmCreated, nmClosed, nmPredict,
                   nmPredictAt>>
    /\ UNCHANGED outsideTritonModel

\* an await has rejected, or the server is not live, or the model is not
\* ready, or there is no vocabulary path: load() throws
LoadThrows(c) ==
    /\ nmLoads[c] \in {"connecting", "checking_live", "checking_ready", "loading_vocab"}
    /\ nmLoads' = [nmLoads EXCEPT ![c] = "threw"]
    /\ pc' = "model_running"
    /\ UNCHANGED <<nmClient, nmTokenizer, nmIsLoaded, nmCreated, nmClosed, nmPredict,
                   nmPredictAt>>
    /\ UNCHANGED outsideTritonModel

\* loadVocabFromFile() has resolved: the tokenizer is set and isLoaded
VocabLoaded(c) ==
    /\ nmLoads[c] = "loading_vocab"
    /\ nmTokenizer' = TRUE
    /\ nmIsLoaded' = TRUE
    /\ nmLoads' = [nmLoads EXCEPT ![c] = "returned"]
    /\ pc' = "model_running"
    /\ UNCHANGED <<nmClient, nmCreated, nmClosed, nmPredict, nmPredictAt>>
    /\ UNCHANGED outsideTritonModel

\* !this.isLoaded || this.client === null || this.tokenizer === null
NotLoaded == ~nmIsLoaded \/ nmClient = 0 \/ ~nmTokenizer

\* predict() up to its first await
Predict ==
    /\ nmPredict' = IF NotLoaded THEN "Model not loaded" ELSE "inference"
    /\ nmPredictAt' = [isLoaded |-> nmIsLoaded, client |-> nmClient,
                       tokenizer |-> nmTokenizer]
    /\ pc' = "model_running"
    /\ UNCHANGED <<nmClient, nmTokenizer, nmIsLoaded, nmLoads, nmCreated, nmClosed>>
    /\ UNCHANGED outsideTritonModel

Dispose ==
    /\ IF nmClient # 0
       THEN /\ nmClosed' = nmClosed \cup {nmClient}
            /\ nmClient' = 0
       ELSE UNCHANGED <<nmClient, nmClosed>>
    /\ nmTokenizer' = FALSE
    /\ nmIsLoaded' = FALSE
    /\ pc' = "disposed"
    /\ UNCHANGED <<nmLoads, nmCreated, nmPredict, nmPredictAt>>
    /\ UNCHANGED outsideTritonModel

NextTritonModel ==
    \/ \E c \in Loads : Load(c)
    \/ \E c \in Loads : Connected(c)
    \/ \E c \in Loads : ServerLive(c)
    \/ \E c \in Loads : ModelReady(c)
    \/ \E c \in Loads : LoadThrows(c)
    \/ \E c \in Loads : VocabLoaded(c)
    \/ Predict
    \/ Dispose

SpecTritonModel == InitTritonModel /\ [][NextTritonModel]_vars

(***************************************************************************)
(* Claims about TritonNERModel.                                            *)
(***************************************************************************)
Predicted == nmPredict # "none"

Usable(fields) == fields.isLoaded /\ fields.client # 0 /\ fields.tokenizer

\* C29: loaded is true only if both the client and the tokenizer are set;
\* predict() runs inference only in that state and otherwise throws 'Model
\* not loaded'; and after dispose() completes with no load in progress the
\* client is closed and loaded is false.
C29_LifecycleInvariant ==
    /\ nmIsLoaded => nmClient # 0 /\ nmTokenizer
    /\ Predicted =>
          (nmPredict = "inference" <=> Usable(nmPredictAt))
    /\ pc = "disposed" /\ ~LoadInProgress =>
          nmClient = 0 /\ ~nmIsLoaded /\ nmCreated \in nmClosed \cup {0}

\* dispose() ran while the one load() was loading the vocabulary, and the
\* load then finished: loaded is true and there is no client
C29_FailingInput ==
    /\ nmLoads[1] = "returned"
    /\ \A c \in Loads : c > 1 => nmLoads[c] = "not_called"
    /\ nmCreated = 1
    /\ nmClosed = {1}
    /\ nmClient = 0
    /\ nmIsLoaded
    /\ nmTokenizer

\* what does hold: predict() runs inference only when loaded, client and
\* tokenizer are all set, and after dispose() with no load in progress
\* nothing is set and the last client created is closed
C29_PredictGuardedAndDisposeClears ==
    /\ Predicted =>
          (nmPredict = "inference" <=> Usable(nmPredictAt))
    /\ pc = "disposed" /\ ~LoadInProgress =>
          /\ nmClient = 0 /\ ~nmIsLoaded /\ ~nmTokenizer
          /\ nmCreated \in nmClosed \cup {0}

====
